---------------------------- MODULE Spec2Model ----------------------------
(***************************************************************************)
(* A model of the rpmpkg library (mdsteele/rust-rpm): the Lead section,    *)
(* the typed index table, the Signature and Header sections, the package   *)
(* builder with its back-patched signature, and the package reader with    *)
(* validate().  Byte streams are sequences of integers in 0..255; every    *)
(* multi-byte integer is big-endian, as in the source.                     *)
(***************************************************************************)
EXTENDS Integers, Sequences, FiniteSets, TLC

VARIABLES
    l_type,       \* LeadSection.package_type of the lead being written
    l_name,       \* LeadSection.name of the lead being written
    l_bytes,      \* the byte stream the lead was written to
    l_tampers,    \* how many bytes of the stream were overwritten
    l_result,     \* what LeadSection::read returned on the stream
    t_table,      \* IndexTable.values: the table, a map from tag to value
    t_pad,        \* the pad setting the table was written with
    t_bytes,      \* the byte stream the table was written to
    t_defect,     \* the defect put into the stream after it was written
    t_result,     \* what IndexTable::read returned on the stream
    t_validated,  \* the schema entry given to IndexTable::validate, and what it returned
    h_table,      \* the index table of a Header section that comes from elsewhere
    h_edits,      \* how many entries of it differ from those of HeaderSection::new
    h_result,     \* what HeaderSection::read returned on it
    h_changelog,  \* what changelog() gave on the HeaderSection that was read
    f_header,     \* a HeaderSection whose file table is being filled
    f_added,      \* the FileInfos given to its add_file, in order
    f_files,      \* what files() gave on it, collected
    s_signature,  \* a SignatureSection whose sizes are being set
    s_size,       \* the u64 sizes given to its setters
    s_got,        \* what its getters and the size checks of validate returned
    c_seconds,    \* the u32 given to u32_to_system_time
    c_time,       \* the SystemTime to convert
    c_back,       \* what system_time_to_u32 returned for it
    i_type,       \* the IndexType whose number and default value are taken
    i_number,     \* the number given to IndexType::from_number
    i_default,    \* the index_type() of the default value of the type
    i_from,       \* what IndexType::from_number returned
    b_phase,      \* which object of the write pipeline is live
    b_type,       \* PackageBuilder.package_type
    b_header,     \* PackageBuilder.header
    b_added,      \* the FileInfos given to add_file, in order
    b_sink,       \* the bytes the writer holds
    b_pos,        \* the position of the writer
    b_archive,    \* the ArchiveBuilder
    b_written,    \* the bytes written through the live FileWriter
    b_bodies,     \* the bytes written through each dropped FileWriter, in order
    b_runs,       \* how many times do_finish has run
    b_result,     \* what the last call on the write pipeline returned
    p_damage,     \* what was done to the package file after it was written
    p_result,     \* what Package::read returned
    p_package,    \* the Package
    p_section,    \* the ArchiveSection
    p_next,       \* what the last read_archive or next_file returned
    p_read,       \* the bytes read through the live FileReader
    p_bodies,     \* the bytes read through each dropped FileReader, in order
    p_validate,   \* what validate returned, with the checks it made
    p_pos,        \* the position of the reader the Package holds
    p_calls       \* the calls made on the Package, in order

leadVars == <<l_type, l_name, l_bytes, l_tampers, l_result>>
tableVars == <<t_table, t_pad, t_bytes, t_defect, t_result, t_validated>>
headerVars == <<h_table, h_edits, h_result, h_changelog>>
filesVars == <<f_header, f_added, f_files>>
sizeVars == <<s_signature, s_size, s_got>>
convertVars == <<c_seconds, c_time, c_back, i_type, i_number, i_default, i_from>>
builderVars == <<b_phase, b_type, b_header, b_added, b_sink, b_pos, b_archive,
                 b_written, b_bodies, b_runs, b_result>>
packageVars == <<p_damage, p_result, p_package, p_section, p_next, p_read,
                 p_bodies, p_validate, p_pos, p_calls>>

vars == <<leadVars, tableVars, headerVars, convertVars, filesVars, sizeVars,
          builderVars, packageVars>>

-----------------------------------------------------------------------------
(* Bytes and results                                                       *)

\* vec![0u8; n]
Zeros(n) == [i \in 1..n |-> 0]

\* the len bytes of stream r that follow the 0-based position p
Take(r, p, len) == SubSeq(r, p + 1, p + len)

\* WriteBytesExt::write_u16::<BigEndian>
U16BE(n) == <<n \div 256, n % 256>>

\* ReadBytesExt::read_u16::<BigEndian>
ReadU16(b) == b[1] * 256 + b[2]

\* the result of an operation that has not run
NoResult == [ok |-> FALSE, kind |-> "none", msg |-> ""]

Ok == [ok |-> TRUE, kind |-> "Ok", msg |-> ""]

\* a panic: an unwrap of None, an index out of range
Panic(m) == [ok |-> FALSE, kind |-> "Panic", msg |-> m]

\* invalid_data!(msg): io::Error of kind InvalidData
InvalidData(m) == [ok |-> FALSE, kind |-> "InvalidData", msg |-> m]

\* the error read_exact gives when the stream ends early
UnexpectedEof == [ok |-> FALSE, kind |-> "UnexpectedEof", msg |-> "failed to fill whole buffer"]

-----------------------------------------------------------------------------
(* src/internal/lead.rs                                                    *)

MAGIC_NUMBER == <<237, 171, 238, 219>>   \* 0xedabeedb
VERSION_MAJOR == 3
VERSION_MINOR == 0
OS_NUM == 1
SIGNATURE_TYPE == 5
LEAD_NAME_LEN == 65
LEAD_RESERVED_LEN == 16

PackageTypes == {"Binary", "Source"}

\* PackageType::from_number with a catch-all arm in place of None
PackageType_from_number_CatchAll(number) ==
    IF number = 0 THEN "Binary" ELSE "Source"

\* PackageType::from_number; "None" stands for Option::None
PackageType_from_number(number) ==
    CASE number = 0 -> "Binary"
      [] number = 1 -> "Source"
      [] OTHER -> "None"

\* PackageType::number
PackageType_number(ptype) == IF ptype = "Binary" THEN 0 ELSE 1

\* a resize that pads with zero bytes and never truncates
Resize_PadOnly(v, n) == [i \in 1..(IF Len(v) > n THEN Len(v) ELSE n) |->
                            IF i <= Len(v) THEN v[i] ELSE 0]

\* Vec::resize(new_len, 0): truncates, or pads with zero bytes
Resize(v, n) == [i \in 1..n |-> IF i <= Len(v) THEN v[i] ELSE 0]

\* while name.last() == Some(&0) { name.pop(); }
RECURSIVE TrimTrailingNuls(_)
TrimTrailingNuls(v) ==
    IF Len(v) > 0 /\ v[Len(v)] = 0 THEN TrimTrailingNuls(SubSeq(v, 1, Len(v) - 1))
    ELSE v

\* LeadSection::write with the name resized to one byte too few
LeadSection_write_ShortName(ptype, name) ==
    MAGIC_NUMBER \o <<VERSION_MAJOR, VERSION_MINOR>>
        \o U16BE(PackageType_number(ptype))
        \o U16BE(1)
        \o Resize(name, LEAD_NAME_LEN - 1) \o <<0, 0>>
        \o U16BE(OS_NUM)
        \o U16BE(SIGNATURE_TYPE)
        \o Zeros(LEAD_RESERVED_LEN)

\* LeadSection::write
LeadSection_write(ptype, name) ==
    MAGIC_NUMBER \o <<VERSION_MAJOR, VERSION_MINOR>>
        \o U16BE(PackageType_number(ptype))
        \o U16BE(1)
        \o Resize(name, LEAD_NAME_LEN) \o <<0>>
        \o U16BE(OS_NUM)
        \o U16BE(SIGNATURE_TYPE)
        \o Zeros(LEAD_RESERVED_LEN)

\* LeadSection::read on stream r from position p.  Each field is read in
\* turn; a short stream ends the read with UnexpectedEof at that field.
LeadSection_read(r, p) ==
    IF Len(r) < p + 4 THEN UnexpectedEof
    ELSE IF Take(r, p, 4) # MAGIC_NUMBER
    THEN InvalidData("Not an RPM package (invalid magic number)")
    ELSE IF Len(r) < p + 6 THEN UnexpectedEof
    ELSE IF r[p + 5] # VERSION_MAJOR \/ r[p + 6] # VERSION_MINOR
    THEN InvalidData("Can't read RPM format version")
    ELSE IF Len(r) < p + 8 THEN UnexpectedEof
    ELSE IF PackageType_from_number(ReadU16(Take(r, p + 6, 2))) = "None"
    THEN InvalidData("Invalid package type")
    ELSE IF Len(r) < p + 10 + LEAD_NAME_LEN + 1 THEN UnexpectedEof
    ELSE IF Len(r) < p + 78 THEN UnexpectedEof
    ELSE IF ReadU16(Take(r, p + 76, 2)) # OS_NUM
    THEN InvalidData("Invalid RPM OS number")
    ELSE IF Len(r) < p + 80 THEN UnexpectedEof
    ELSE IF ReadU16(Take(r, p + 78, 2)) # SIGNATURE_TYPE
    THEN InvalidData("Invalid RPM signature type")
    ELSE IF Len(r) < p + 80 + LEAD_RESERVED_LEN THEN UnexpectedEof
    ELSE [ok |-> TRUE, kind |-> "Ok", msg |-> "",
          package_type |-> PackageType_from_number(ReadU16(Take(r, p + 6, 2))),
          name |-> TrimTrailingNuls(Take(r, p + 10, LEAD_NAME_LEN + 1)),
          pos |-> p + 80 + LEAD_RESERVED_LEN]


-----------------------------------------------------------------------------
(* src/internal/index.rs                                                   *)

INDEX_MAGIC_NUMBER == <<142, 173, 232, 1>>   \* 0x8eade801

\* the largest integer of the model; a 32-bit field above it reads as this
\* value, which is larger than every buffer of the model
U32_HUGE == 2147483647

\* WriteBytesExt::write_u32::<BigEndian>
U32BE(n) == <<n \div 16777216, (n \div 65536) % 256, (n \div 256) % 256, n % 256>>

\* ReadBytesExt::read_u32::<BigEndian>
ReadU32(b) ==
    IF b[1] >= 128 THEN U32_HUGE
    ELSE ((b[1] * 256 + b[2]) * 256 + b[3]) * 256 + b[4]

\* WriteBytesExt::write_i32::<BigEndian> (two's complement)
I32BE(n) ==
    IF n >= 0 THEN U32BE(n)
    ELSE [i \in 1..4 |-> 255 - U32BE(-n - 1)[i]]

\* ReadBytesExt::read_i32::<BigEndian>
ReadI32(b) ==
    IF b[1] >= 128 THEN -ReadU32([i \in 1..4 |-> 255 - b[i]]) - 1
    ELSE ReadU32(b)

\* WriteBytesExt::write_u64::<BigEndian>
U64BE(n) == <<0, 0, 0, 0>> \o U32BE(n)

\* ReadBytesExt::read_u64::<BigEndian>
ReadU64(b) ==
    IF SubSeq(b, 1, 4) # <<0, 0, 0, 0>> THEN U32_HUGE
    ELSE ReadU32(SubSeq(b, 5, 8))

IndexTypes ==
    <<"Null", "Char", "Int8", "Int16", "Int32", "Int64", "String", "Binary",
      "StringArray", "I18nString">>

\* IndexType::from_number with a catch-all arm that gives Null
IndexType_from_number_Lenient(number) ==
    CASE number = 0 -> "Null"
      [] number = 1 -> "Char"
      [] number = 2 -> "Int8"
      [] number = 3 -> "Int16"
      [] number = 4 -> "Int32"
      [] number = 5 -> "Int64"
      [] number = 6 -> "String"
      [] number = 7 -> "Binary"
      [] number = 8 -> "StringArray"
      [] number = 9 -> "I18nString"
      [] OTHER -> "Null"

\* IndexType::from_number; "None" stands for Option::None
IndexType_from_number(number) ==
    CASE number = 0 -> "Null"
      [] number = 1 -> "Char"
      [] number = 2 -> "Int8"
      [] number = 3 -> "Int16"
      [] number = 4 -> "Int32"
      [] number = 5 -> "Int64"
      [] number = 6 -> "String"
      [] number = 7 -> "Binary"
      [] number = 8 -> "StringArray"
      [] number = 9 -> "I18nString"
      [] OTHER -> "None"

\* IndexType::number with the numbers of the two string arrays exchanged
IndexType_number_Exchanged(itype) ==
    CASE itype = "Null" -> 0
      [] itype = "Char" -> 1
      [] itype = "Int8" -> 2
      [] itype = "Int16" -> 3
      [] itype = "Int32" -> 4
      [] itype = "Int64" -> 5
      [] itype = "String" -> 6
      [] itype = "Binary" -> 7
      [] itype = "StringArray" -> 9
      [] itype = "I18nString" -> 8

\* IndexType::number
IndexType_number(itype) ==
    CASE itype = "Null" -> 0
      [] itype = "Char" -> 1
      [] itype = "Int8" -> 2
      [] itype = "Int16" -> 3
      [] itype = "Int32" -> 4
      [] itype = "Int64" -> 5
      [] itype = "String" -> 6
      [] itype = "Binary" -> 7
      [] itype = "StringArray" -> 8
      [] itype = "I18nString" -> 9

\* an alignment of 1 for every type
IndexType_alignment_Unaligned(itype) == 1

\* IndexType::alignment
IndexType_alignment(itype) ==
    CASE itype = "Int16" -> 2
      [] itype = "Int32" -> 4
      [] itype = "Int64" -> 8
      [] OTHER -> 1

\* an IndexValue: its variant and its payload
Value(itype, payload) == [t |-> itype, v |-> payload]

\* IndexType::default_value
IndexType_default_value(itype) == Value(itype, <<>>)

\* IndexValue::index_type
IndexValue_index_type(value) == value.t

\* IndexValue::count with the byte length as the count of a String
IndexValue_count_StringLen(value) ==
    IF value.t = "Null" THEN 1 ELSE Len(value.v)

\* IndexValue::count
IndexValue_count(value) ==
    IF value.t \in {"Null", "String"} THEN 1 ELSE Len(value.v)

\* the concatenation of a sequence of byte strings
RECURSIVE FlattenRange(_, _, _)
FlattenRange(chunks, lo, hi) ==
    IF lo > hi THEN <<>>
    ELSE IF lo = hi THEN chunks[lo]
    ELSE LET mid == (lo + hi) \div 2
         IN  FlattenRange(chunks, lo, mid) \o FlattenRange(chunks, mid + 1, hi)

Flatten(chunks) == FlattenRange(chunks, 1, Len(chunks))

\* write_nul_terminated_string
write_nul_terminated_string(string) == string \o <<0>>

\* IndexValue::write: the bytes appended to the data store
IndexValue_write(value) ==
    CASE value.t = "Null" -> <<>>
      [] value.t \in {"Char", "Int8", "Binary"} -> value.v
      [] value.t = "Int16" -> Flatten([i \in 1..Len(value.v) |-> U16BE(value.v[i])])
      [] value.t = "Int32" -> Flatten([i \in 1..Len(value.v) |-> U32BE(value.v[i])])
      [] value.t = "Int64" -> Flatten([i \in 1..Len(value.v) |-> U64BE(value.v[i])])
      [] value.t = "String" -> write_nul_terminated_string(value.v)
      [] OTHER ->
            Flatten([i \in 1..Len(value.v) |-> write_nul_terminated_string(value.v[i])])

\* the number of continuation bytes (10xxxxxx) that must follow lead byte b
\* with the range of the first of them; width 0 marks a byte that cannot
\* start a character (std::str::from_utf8)
Utf8Lead(b) ==
    CASE b < 128 -> [more |-> 0, lo |-> 0, hi |-> 0]
      [] b >= 194 /\ b <= 223 -> [more |-> 1, lo |-> 128, hi |-> 191]
      [] b = 224 -> [more |-> 2, lo |-> 160, hi |-> 191]
      [] b = 237 -> [more |-> 2, lo |-> 128, hi |-> 159]
      [] b >= 225 /\ b <= 239 -> [more |-> 2, lo |-> 128, hi |-> 191]
      [] b = 240 -> [more |-> 3, lo |-> 144, hi |-> 191]
      [] b >= 241 /\ b <= 243 -> [more |-> 3, lo |-> 128, hi |-> 191]
      [] b = 244 -> [more |-> 3, lo |-> 128, hi |-> 143]
      [] OTHER -> [more |-> -1, lo |-> 0, hi |-> 0]

\* String::from_utf8(buffer).is_ok()
RECURSIVE Utf8Valid(_)
Utf8Valid(s) ==
    IF s = <<>> THEN TRUE
    ELSE LET l == Utf8Lead(s[1]) IN
         /\ l.more >= 0
         /\ Len(s) >= 1 + l.more
         /\ l.more >= 1 => (s[2] >= l.lo /\ s[2] <= l.hi)
         /\ \A k \in 3..(1 + l.more) : s[k] >= 128 /\ s[k] <= 191
         /\ Utf8Valid(SubSeq(s, 2 + l.more, Len(s)))

\* the 0-based offset of the first NUL byte of data at or after off, or
\* Len(data) when there is none
RECURSIVE FindNul(_, _)
FindNul(data, off) ==
    IF off >= Len(data) THEN Len(data)
    ELSE IF data[off + 1] = 0 THEN off
    ELSE FindNul(data, off + 1)

\* read_nul_terminated_string with the cursor at off: the string and the
\* cursor after its NUL, or the error
read_nul_terminated_string(data, off) ==
    LET nul == FindNul(data, off) IN
    IF nul >= Len(data) THEN UnexpectedEof
    ELSE IF ~Utf8Valid(Take(data, off, nul - off))
    THEN InvalidData("Invalid UTF-8 in header string entry")
    ELSE [ok |-> TRUE, kind |-> "Ok", msg |-> "",
          v |-> Take(data, off, nul - off), pos |-> nul + 1]

\* count strings read one after the other from off
RECURSIVE ReadStrings(_, _, _, _)
ReadStrings(data, off, count, array) ==
    IF count = 0 THEN [ok |-> TRUE, kind |-> "Ok", msg |-> "", v |-> array, pos |-> off]
    ELSE LET s == read_nul_terminated_string(data, off) IN
         IF ~s.ok THEN s
         ELSE ReadStrings(data, s.pos, count - 1, Append(array, s.v))

\* one big-endian integer of the given width in bytes
ReadInt(b, width) ==
    CASE width = 1 -> b[1]
      [] width = 2 -> ReadU16(b)
      [] width = 4 -> ReadU32(b)
      [] OTHER -> ReadU64(b)

\* count big-endian integers of the given width read from off
ReadInts(data, off, count, width) ==
    IF count > 0 /\ (off > Len(data) \/ count > (Len(data) - off) \div width)
    THEN UnexpectedEof
    ELSE [ok |-> TRUE, kind |-> "Ok", msg |-> "",
          v |-> [i \in 1..count |-> ReadInt(Take(data, off + (i - 1) * width, width), width)],
          pos |-> off + count * width]

\* IndexValue::read with the cursor of the data store at offset
IndexValue_read(data, offset, index_type, count) ==
    LET typed(got) == IF got.ok THEN [got EXCEPT !.v = Value(index_type, got.v)] ELSE got
    IN  typed(CASE index_type = "Null" ->
                       [ok |-> TRUE, kind |-> "Ok", msg |-> "", v |-> <<>>, pos |-> offset]
                [] index_type \in {"Char", "Int8", "Binary"} ->
                       ReadInts(data, offset, count, 1)
                [] index_type = "Int16" -> ReadInts(data, offset, count, 2)
                [] index_type = "Int32" -> ReadInts(data, offset, count, 4)
                [] index_type = "Int64" -> ReadInts(data, offset, count, 8)
                [] index_type = "String" ->
                       IF count # 1
                       THEN InvalidData("Invalid count in index entry for type String")
                       ELSE read_nul_terminated_string(data, offset)
                [] OTHER -> ReadStrings(data, offset, count, <<>>))

\* IndexTable::new: BTreeMap::new()
IndexTable_new == [t \in {} |-> Value("Null", <<>>)]

\* BTreeMap::insert
MapInsert(map, key, value) == (key :> value) @@ map

\* IndexTable::set
IndexTable_set(table, tag, value) == MapInsert(table, tag, value)

\* IndexTable::has
IndexTable_has(table, tag) == tag \in DOMAIN table

\* the first element of a set of positions or keys in ascending order
Least(set) == CHOOSE k \in set : \A other \in set : k <= other

\* the keys of a BTreeMap in iteration order (ascending): the i-th key is
\* the one with i - 1 smaller keys
SortedKeys(keys) ==
    [i \in 1..Cardinality(keys) |->
        CHOOSE k \in keys : Cardinality({other \in keys : other < k}) = i - 1]

\* no resize, whatever data.len() is
PadTo_Never(data, alignment) == data

\* data.resize(pad_to, 0) when data.len() is not a multiple of alignment
PadTo(data, alignment) ==
    IF Len(data) % alignment # 0
    THEN data \o Zeros(alignment - (Len(data) % alignment))
    ELSE data

\* one iteration of the first loop of IndexTable::write with the data store
\* start bytes long: the padding its type asks for and the value are
\* appended, and the entry (tag, value, offset of the value) is recorded
StoreEntry(tag, value, start) ==
    LET alignment == IndexType_alignment(IndexValue_index_type(value))
        padding == (alignment - (start % alignment)) % alignment
    IN  [data |-> Zeros(padding) \o IndexValue_write(value),
         entries |-> <<[tag |-> tag, value |-> value, offset |-> start + padding]>>]

\* iterations lo..hi of the first loop of IndexTable::write, the tags taken
\* in ascending order and the data store start bytes long before them: the
\* bytes they append and the entries they record.  The range is halved so
\* that the evaluation stays shallow; the second half starts where the
\* first one ends, as in the loop.
RECURSIVE BuildStore(_, _, _, _, _)
BuildStore(table, tags, lo, hi, start) ==
    IF lo > hi THEN [data |-> <<>>, entries |-> <<>>]
    ELSE IF lo = hi THEN StoreEntry(tags[lo], table[tags[lo]], start)
    ELSE LET mid == (lo + hi) \div 2
             first == BuildStore(table, tags, lo, mid, start)
             second == BuildStore(table, tags, mid + 1, hi, start + Len(first.data))
         IN  [data |-> first.data \o second.data,
              entries |-> first.entries \o second.entries]

\* the data store of IndexTable::write after the optional padding to 8
IndexTable_store(table, pad) ==
    LET padded(built) ==
            [built EXCEPT !.data = IF pad THEN PadTo(built.data, 8) ELSE built.data]
    IN  padded(BuildStore(table, SortedKeys(DOMAIN table), 1, Cardinality(DOMAIN table), 0))

\* one 16-byte index entry as IndexTable::write emits it
IndexEntryBytes(entry) ==
    I32BE(entry.tag) \o I32BE(IndexType_number(IndexValue_index_type(entry.value)))
        \o U32BE(entry.offset) \o U32BE(IndexValue_count(entry.value))

\* IndexTable::write
IndexTable_write(table, pad) ==
    LET written(store) ==
            INDEX_MAGIC_NUMBER \o U32BE(0)
                \o U32BE(Cardinality(DOMAIN table))
                \o U32BE(Len(store.data))
                \o Flatten([i \in 1..Len(store.entries) |->
                               IndexEntryBytes(store.entries[i])])
                \o store.data
    IN  written(IndexTable_store(table, pad))

\* the i-th 16-byte index entry of the index that starts at p
IndexEntryAt(r, p, i) ==
    [tag |-> ReadI32(Take(r, p + 16 * (i - 1), 4)),
     index_type |-> IndexType_from_number(ReadI32(Take(r, p + 16 * (i - 1) + 4, 4))),
     offset |-> ReadU32(Take(r, p + 16 * (i - 1) + 8, 4)),
     count |-> ReadU32(Take(r, p + 16 * (i - 1) + 12, 4))]

\* one iteration of the first loop of IndexTable::read, the entries before
\* the i-th one having been read: the error it returns, if any
ReadIndexEntry(r, p, i) ==
    LET at == p + 16 * (i - 1) IN
    IF Len(r) < at + 4 THEN UnexpectedEof
    ELSE IF \E j \in 1..(i - 1) : IndexEntryAt(r, p, j).tag = IndexEntryAt(r, p, i).tag
    THEN InvalidData("Repeated tag in index table")
    ELSE IF Len(r) < at + 8 THEN UnexpectedEof
    ELSE IF IndexType_from_number(ReadI32(Take(r, at + 4, 4))) = "None"
    THEN InvalidData("Invalid type number in index entry")
    ELSE IF Len(r) < at + 16 THEN UnexpectedEof
    ELSE [ok |-> TRUE, kind |-> "Ok", msg |-> ""]

\* the first loop of IndexTable::read over the num_values index entries:
\* the error of the first iteration that fails, or the index map and the
\* position after the index.  No more iterations run than entries fit in
\* the stream, plus the one that meets its end.
ReadIndexEntries(r, p, num_values) ==
    LET fit == (Len(r) - p) \div 16
        iterations == IF num_values <= fit THEN num_values ELSE fit + 1
        first(failed) ==
            IF failed # {} THEN ReadIndexEntry(r, p, Least(failed))
            ELSE [ok |-> TRUE, kind |-> "Ok", msg |-> "",
                  index_map |->
                      [tag \in {IndexEntryAt(r, p, i).tag : i \in 1..num_values} |->
                          IndexEntryAt(r, p,
                              CHOOSE i \in 1..num_values :
                                  IndexEntryAt(r, p, i).tag = tag)],
                  pos |-> p + 16 * num_values]
    IN  first({i \in 1..iterations : ~ReadIndexEntry(r, p, i).ok})

\* the second loop of IndexTable::read: the value of each tag, in ascending
\* tag order, parsed at its offset in the data store; the error of the
\* first tag that fails, or the table
ReadValues(data, index_map, tags) ==
    LET collected(values) ==
            IF \E k \in 1..Len(tags) : ~values[tags[k]].ok
            THEN values[tags[Least({k \in 1..Len(tags) : ~values[tags[k]].ok})]]
            ELSE [ok |-> TRUE, kind |-> "Ok", msg |-> "",
                  table |-> [tag \in DOMAIN index_map |-> values[tag].v]]
    IN  collected([tag \in DOMAIN index_map |->
                      IndexValue_read(data, index_map[tag].offset,
                                      index_map[tag].index_type, index_map[tag].count)])

\* IndexTable::read on stream r from position p: the table and the position
\* after the data store, or the error
IndexTable_read(r, p, pad) ==
    LET data_size(declared) == IF pad THEN ((declared + 7) \div 8) * 8 ELSE declared
        with_values(values, pos) ==
            IF ~values.ok THEN values
            ELSE [ok |-> TRUE, kind |-> "Ok", msg |-> "", table |-> values.table,
                  pos |-> pos]
        with_index(index, declared) ==
            IF ~index.ok THEN index
            ELSE IF declared > Len(r) - index.pos THEN UnexpectedEof
            ELSE IF data_size(declared) > Len(r) - index.pos THEN UnexpectedEof
            ELSE with_values(ReadValues(Take(r, index.pos, data_size(declared)),
                                        index.index_map,
                                        SortedKeys(DOMAIN index.index_map)),
                             index.pos + data_size(declared))
    IN
    IF Len(r) < p + 4 THEN UnexpectedEof
    ELSE IF Take(r, p, 4) # INDEX_MAGIC_NUMBER
    THEN InvalidData("Invalid magic number for index table")
    ELSE IF Len(r) < p + 8 THEN UnexpectedEof
    ELSE IF Take(r, p + 4, 4) # <<0, 0, 0, 0>>
    THEN InvalidData("Invalid reserved field for index table")
    ELSE IF Len(r) < p + 16 THEN UnexpectedEof
    ELSE with_index(ReadIndexEntries(r, p + 16, ReadU32(Take(r, p + 8, 4))),
                    ReadU32(Take(r, p + 12, 4)))

\* IndexTable::get_nth_int32 (and get_nth_int16 with "Int16"): the n-th
\* element of the array under tag, or "None"
IndexTable_get_nth_int(table, tag, itype, n) ==
    IF tag \in DOMAIN table /\ table[tag].t = itype /\ n < Len(table[tag].v)
    THEN table[tag].v[n + 1]
    ELSE "None"

\* IndexTable::get_nth_string
IndexTable_get_nth_string(table, tag, n) ==
    IF /\ tag \in DOMAIN table
       /\ table[tag].t \in {"StringArray", "I18nString"}
       /\ n < Len(table[tag].v)
    THEN table[tag].v[n + 1]
    ELSE "None"

\* IndexTable::get_string (get_binary and get_string_array with their type)
IndexTable_get_typed(table, tag, itype) ==
    IF tag \in DOMAIN table /\ table[tag].t = itype THEN table[tag].v ELSE "None"

\* a push that puts the element at the front of the array
IndexTable_push_Front(table, tag, element) ==
    [table EXCEPT ![tag].v = <<element>> \o @]

\* IndexTable::push_string, push_int16, push_int32 on an entry of that type
IndexTable_push(table, tag, element) ==
    [table EXCEPT ![tag].v = Append(@, element)]

\* IndexTable::validate with the count compared before the type
IndexTable_validate_CountFirst(table, entry) ==
    IF entry.tag \in DOMAIN table
    THEN IF entry.count # -1 /\ IndexValue_count(table[entry.tag]) # entry.count
         THEN [ok |-> FALSE, kind |-> "InvalidData",
               msg |-> "Incorrect number of values for entry", name |-> entry.name]
         ELSE IF IndexValue_index_type(table[entry.tag]) # entry.itype
         THEN [ok |-> FALSE, kind |-> "InvalidData", msg |-> "Incorrect type for entry",
               name |-> entry.name]
         ELSE [ok |-> TRUE, kind |-> "Ok", msg |-> ""]
    ELSE IF entry.required
    THEN [ok |-> FALSE, kind |-> "InvalidData", msg |-> "Missing entry", name |-> entry.name]
    ELSE [ok |-> TRUE, kind |-> "Ok", msg |-> ""]

\* IndexTable::validate of one schema entry; count -1 stands for None
IndexTable_validate(table, entry) ==
    IF entry.tag \in DOMAIN table
    THEN IF IndexValue_index_type(table[entry.tag]) # entry.itype
         THEN [ok |-> FALSE, kind |-> "InvalidData", msg |-> "Incorrect type for entry",
               name |-> entry.name]
         ELSE IF entry.count # -1 /\ IndexValue_count(table[entry.tag]) # entry.count
         THEN [ok |-> FALSE, kind |-> "InvalidData",
               msg |-> "Incorrect number of values for entry", name |-> entry.name]
         ELSE [ok |-> TRUE, kind |-> "Ok", msg |-> ""]
    ELSE IF entry.required
    THEN [ok |-> FALSE, kind |-> "InvalidData", msg |-> "Missing entry", name |-> entry.name]
    ELSE [ok |-> TRUE, kind |-> "Ok", msg |-> ""]

\* the loop over ENTRIES in SignatureSection::read and HeaderSection::read:
\* the first failing entry's error
ValidateEntries(table, entries) ==
    LET first(failed) ==
            IF failed # {} THEN IndexTable_validate(table, entries[Least(failed)])
            ELSE [ok |-> TRUE, kind |-> "Ok", msg |-> ""]
    IN  first({k \in 1..Len(entries) : ~IndexTable_validate(table, entries[k]).ok})

\* IndexTable::expect_count
IndexTable_expect_count(table, count1, name2, tag2) ==
    LET count2 == IF tag2 \in DOMAIN table THEN IndexValue_count(table[tag2]) ELSE 0
    IN  IF count1 # count2
        THEN [ok |-> FALSE, kind |-> "InvalidData", msg |-> "Counts for entries don't match",
              name |-> name2]
        ELSE [ok |-> TRUE, kind |-> "Ok", msg |-> ""]

\* one line of an ENTRIES table
Entry(required, name, tag, itype, count) ==
    [required |-> required, name |-> name, tag |-> tag, itype |-> itype, count |-> count]

-----------------------------------------------------------------------------
(* src/internal/convert.rs                                                 *)
(* A u32 is a pair of 16-bit halves <<high, low>> and a u64 four of them,  *)
(* the most significant first, so that every value of the type has its     *)
(* own representation.  A SystemTime is its distance from UNIX_EPOCH: the  *)
(* direction, the whole seconds as a u64 and the nanoseconds.              *)

U32_MAX == <<65535, 65535>>

UNIX_EPOCH == [before |-> FALSE, secs |-> <<0, 0, 0, 0>>, nanos |-> 0]

\* no SystemTime
NoTime == [before |-> FALSE, secs |-> <<>>, nanos |-> 0]

\* seconds as u64
U32AsU64(seconds) == <<0, 0>> \o seconds

\* a cast to u32 that saturates
U64AsU32_Saturating(seconds) ==
    IF seconds[1] = 0 /\ seconds[2] = 0 THEN SubSeq(seconds, 3, 4) ELSE U32_MAX

\* seconds as u32: the low 32 bits
U64AsU32(seconds) == SubSeq(seconds, 3, 4)

\* a >= b for two u64
U64GreaterEq(a, b) ==
    \/ a = b
    \/ \E k \in 1..4 : a[k] > b[k] /\ \A j \in 1..(k - 1) : a[j] = b[j]

\* UNIX_EPOCH + Duration::new(secs, nanos)
EpochPlus(secs, nanos) == [before |-> FALSE, secs |-> secs, nanos |-> nanos]

\* timestamp.duration_since(UNIX_EPOCH): Ok with the duration when the
\* timestamp is not earlier than the epoch, Err otherwise
DurationSinceEpoch(timestamp) ==
    IF timestamp.before /\ timestamp # [UNIX_EPOCH EXCEPT !.before = TRUE]
    THEN [ok |-> FALSE, secs |-> <<0, 0, 0, 0>>]
    ELSE [ok |-> TRUE, secs |-> timestamp.secs]

\* u32_to_system_time
u32_to_system_time(seconds) == EpochPlus(U32AsU64(seconds), 0)

\* system_time_to_u32 without the clamp to u32::MAX
system_time_to_u32_Truncating(timestamp) ==
    IF DurationSinceEpoch(timestamp).ok
    THEN U64AsU32(DurationSinceEpoch(timestamp).secs)
    ELSE <<0, 0>>

\* system_time_to_u32
system_time_to_u32(timestamp) ==
    IF DurationSinceEpoch(timestamp).ok
    THEN IF U64GreaterEq(DurationSinceEpoch(timestamp).secs, U32AsU64(U32_MAX))
         THEN U32_MAX
         ELSE U64AsU32(DurationSinceEpoch(timestamp).secs)
    ELSE <<0, 0>>

-----------------------------------------------------------------------------
(* src/internal/signature.rs                                               *)

SIG_TAG_SIZE == 1000
SIG_TAG_PAYLOAD_SIZE == 1007
SIG_TAG_SHA1 == 269
SIG_TAG_MD5 == 1004
MD5_LEN == 16

SIGNATURE_ENTRIES ==
    << Entry(TRUE, "SIZE", SIG_TAG_SIZE, "Int32", 1),
       Entry(FALSE, "PAYLOAD_SIZE", SIG_TAG_PAYLOAD_SIZE, "Int32", 1),
       Entry(FALSE, "SHA1", SIG_TAG_SHA1, "String", -1),
       Entry(TRUE, "MD5", SIG_TAG_MD5, "Binary", MD5_LEN) >>

\* size as u32 on a u64: every size of the model is below 2^31, where the
\* cast keeps the value
AsU32(size) == size

\* a placeholder that leaves PAYLOAD_SIZE out
SignatureSection_placeholder_NoPayloadSize ==
    IndexTable_set(
        IndexTable_set(IndexTable_new, SIG_TAG_SIZE, Value("Int32", <<0>>)),
        SIG_TAG_MD5, Value("Binary", Zeros(MD5_LEN)))

\* SignatureSection::placeholder
SignatureSection_placeholder ==
    IndexTable_set(
        IndexTable_set(
            IndexTable_set(IndexTable_new, SIG_TAG_SIZE, Value("Int32", <<0>>)),
            SIG_TAG_PAYLOAD_SIZE, Value("Int32", <<0>>)),
        SIG_TAG_MD5, Value("Binary", Zeros(MD5_LEN)))

\* SignatureSection::read
SignatureSection_read(r, p) ==
    LET validated(table, valid) == IF valid.ok THEN table ELSE valid
        checked(table) ==
            IF ~table.ok THEN table
            ELSE validated(table, ValidateEntries(table.table, SIGNATURE_ENTRIES))
    IN  checked(IndexTable_read(r, p, TRUE))

\* SignatureSection::write
SignatureSection_write(signature) == IndexTable_write(signature, TRUE)

\* SignatureSection::header_sha1
header_sha1(signature) == IndexTable_get_typed(signature, SIG_TAG_SHA1, "String")

\* SignatureSection::header_and_archive_md5
header_and_archive_md5(signature) == IndexTable_get_typed(signature, SIG_TAG_MD5, "Binary")

\* SignatureSection::set_header_and_archive_md5
set_header_and_archive_md5(signature, md5) ==
    IndexTable_set(signature, SIG_TAG_MD5, Value("Binary", md5))

\* SignatureSection::header_and_archive_size
header_and_archive_size(signature) ==
    IndexTable_get_nth_int(signature, SIG_TAG_SIZE, "Int32", 0)

\* SignatureSection::set_header_and_archive_size
set_header_and_archive_size(signature, size) ==
    IndexTable_set(signature, SIG_TAG_SIZE, Value("Int32", <<AsU32(size)>>))

\* SignatureSection::uncompressed_archive_size
uncompressed_archive_size(signature) ==
    IndexTable_get_nth_int(signature, SIG_TAG_PAYLOAD_SIZE, "Int32", 0)

\* set_uncompressed_archive_size that writes under the SIZE tag
set_uncompressed_archive_size_WrongTag(signature, size) ==
    IndexTable_set(signature, SIG_TAG_SIZE, Value("Int32", <<AsU32(size)>>))

\* SignatureSection::set_uncompressed_archive_size
set_uncompressed_archive_size(signature, size) ==
    IndexTable_set(signature, SIG_TAG_PAYLOAD_SIZE, Value("Int32", <<AsU32(size)>>))

-----------------------------------------------------------------------------
(* src/internal/header.rs                                                  *)

\* the TAG_* constants of the Header section
TAG ==
    [NAME |-> 1000, VERSION |-> 1001, RELEASE |-> 1002, SUMMARY |-> 1004,
     DESCRIPTION |-> 1005, SIZE |-> 1009, VENDOR |-> 1011, LICENSE |-> 1014,
     GROUP |-> 1016, URL |-> 1020, OS |-> 1021, ARCH |-> 1022,
     ARCHIVESIZE |-> 1046, PAYLOADFORMAT |-> 1124, PAYLOADCOMPRESSOR |-> 1125,
     PAYLOADFLAGS |-> 1126,
     PREIN |-> 1023, POSTIN |-> 1024, PREUN |-> 1025, POSTUN |-> 1026,
     PREINPROG |-> 1085, POSTINPROG |-> 1086, PREUNPROG |-> 1087,
     POSTUNPROG |-> 1088,
     OLDFILENAMES |-> 1027, FILESIZES |-> 1028, FILEMODES |-> 1030,
     FILERDEVS |-> 1033, FILEMTIMES |-> 1034, FILEMD5S |-> 1035,
     FILELINKTOS |-> 1036, FILEFLAGS |-> 1037, FILEUSERNAME |-> 1039,
     FILEGROUPNAME |-> 1040, FILEDEVICES |-> 1095, FILEINODES |-> 1096,
     FILELANGS |-> 1097, DIRINDEXES |-> 1116, BASENAMES |-> 1117,
     DIRNAMES |-> 1118,
     PROVIDENAME |-> 1047, PROVIDEFLAGS |-> 1112, PROVIDEVERSION |-> 1113,
     REQUIRENAME |-> 1049, REQUIREFLAGS |-> 1048, REQUIREVERSION |-> 1050,
     CONFLICTNAME |-> 1054, CONFLICTFLAGS |-> 1053, CONFLICTVERSION |-> 1055,
     OBSOLETENAME |-> 1090, OBSOLETEFLAGS |-> 1114, OBSOLETEVERSION |-> 1115,
     BUILDTIME |-> 1006, BUILDHOST |-> 1007, FILEVERIFYFLAGS |-> 1045,
     CHANGELOGTIME |-> 1080, CHANGELOGNAME |-> 1081, CHANGELOGTEXT |-> 1082,
     OPTFLAGS |-> 1122]

ENTRIES ==
    << \* Package information:
       Entry(TRUE, "NAME", TAG.NAME, "String", -1),
       Entry(TRUE, "VERSION", TAG.VERSION, "String", -1),
       Entry(TRUE, "RELEASE", TAG.RELEASE, "String", -1),
       Entry(TRUE, "SUMMARY", TAG.SUMMARY, "I18nString", -1),
       Entry(TRUE, "DESCRIPTION", TAG.DESCRIPTION, "I18nString", -1),
       Entry(TRUE, "SIZE", TAG.SIZE, "Int32", 1),
       Entry(FALSE, "VENDOR", TAG.VENDOR, "String", -1),
       Entry(TRUE, "LICENSE", TAG.LICENSE, "String", -1),
       Entry(TRUE, "GROUP", TAG.GROUP, "I18nString", -1),
       Entry(FALSE, "URL", TAG.URL, "String", -1),
       Entry(TRUE, "OS", TAG.OS, "String", -1),
       Entry(TRUE, "ARCH", TAG.ARCH, "String", -1),
       Entry(FALSE, "ARCHIVESIZE", TAG.ARCHIVESIZE, "Int32", 1),
       Entry(TRUE, "PAYLOADFORMAT", TAG.PAYLOADFORMAT, "String", -1),
       Entry(TRUE, "PAYLOADCOMPRESSOR", TAG.PAYLOADCOMPRESSOR, "String", -1),
       Entry(TRUE, "PAYLOADFLAGS", TAG.PAYLOADFLAGS, "String", -1),
       \* Installation information:
       Entry(FALSE, "PREIN", TAG.PREIN, "String", -1),
       Entry(FALSE, "POSTIN", TAG.POSTIN, "String", -1),
       Entry(FALSE, "PREUN", TAG.PREUN, "String", -1),
       Entry(FALSE, "POSTUN", TAG.POSTUN, "String", -1),
       Entry(FALSE, "PREINPROG", TAG.PREINPROG, "String", -1),
       Entry(FALSE, "POSTINPROG", TAG.POSTINPROG, "String", -1),
       Entry(FALSE, "PREUNPROG", TAG.PREUNPROG, "String", -1),
       Entry(FALSE, "POSTUNPROG", TAG.POSTUNPROG, "String", -1),
       \* File information:
       Entry(FALSE, "OLDFILENAMES", TAG.OLDFILENAMES, "StringArray", -1),
       Entry(TRUE, "FILESIZES", TAG.FILESIZES, "Int32", -1),
       Entry(TRUE, "FILEMODES", TAG.FILEMODES, "Int16", -1),
       Entry(TRUE, "FILERDEVS", TAG.FILERDEVS, "Int16", -1),
       Entry(TRUE, "FILEMTIMES", TAG.FILEMTIMES, "Int32", -1),
       Entry(TRUE, "FILEMD5S", TAG.FILEMD5S, "StringArray", -1),
       Entry(TRUE, "FILELINKTOS", TAG.FILELINKTOS, "StringArray", -1),
       Entry(TRUE, "FILEFLAGS", TAG.FILEFLAGS, "Int32", -1),
       Entry(TRUE, "FILEUSERNAME", TAG.FILEUSERNAME, "StringArray", -1),
       Entry(TRUE, "FILEGROUPNAME", TAG.FILEGROUPNAME, "StringArray", -1),
       Entry(TRUE, "FILEDEVICES", TAG.FILEDEVICES, "Int32", -1),
       Entry(TRUE, "FILEINODES", TAG.FILEINODES, "Int32", -1),
       Entry(TRUE, "FILELANGS", TAG.FILELANGS, "StringArray", -1),
       Entry(FALSE, "DIRINDEXES", TAG.DIRINDEXES, "Int32", -1),
       Entry(FALSE, "BASENAMES", TAG.BASENAMES, "StringArray", -1),
       Entry(FALSE, "DIRNAMES", TAG.DIRNAMES, "StringArray", -1),
       \* Dependency information:
       Entry(TRUE, "PROVIDENAME", TAG.PROVIDENAME, "StringArray", -1),
       Entry(TRUE, "PROVIDEFLAGS", TAG.PROVIDEFLAGS, "Int32", -1),
       Entry(TRUE, "PROVIDEVERSION", TAG.PROVIDEVERSION, "StringArray", -1),
       Entry(TRUE, "REQUIRENAME", TAG.REQUIRENAME, "StringArray", -1),
       Entry(TRUE, "REQUIREFLAGS", TAG.REQUIREFLAGS, "Int32", -1),
       Entry(TRUE, "REQUIREVERSION", TAG.REQUIREVERSION, "StringArray", -1),
       Entry(FALSE, "CONFLICTNAME", TAG.CONFLICTNAME, "StringArray", -1),
       Entry(FALSE, "CONFLICTFLAGS", TAG.CONFLICTFLAGS, "Int32", -1),
       Entry(FALSE, "CONFLICTVERSION", TAG.CONFLICTVERSION, "StringArray", -1),
       Entry(FALSE, "OBSOLETENAME", TAG.OBSOLETENAME, "StringArray", -1),
       Entry(FALSE, "OBSOLETEFLAGS", TAG.OBSOLETEFLAGS, "Int32", -1),
       Entry(FALSE, "OBSOLETEVERSION", TAG.OBSOLETEVERSION, "StringArray", -1),
       \* Other information:
       Entry(FALSE, "BUILDTIME", TAG.BUILDTIME, "Int32", 1),
       Entry(FALSE, "BUILDHOST", TAG.BUILDHOST, "String", -1),
       Entry(FALSE, "FILEVERIFYFLAGS", TAG.FILEVERIFYFLAGS, "Int32", -1),
       Entry(FALSE, "CHANGELOGTIME", TAG.CHANGELOGTIME, "Int32", -1),
       Entry(FALSE, "CHANGELOGNAME", TAG.CHANGELOGNAME, "StringArray", -1),
       Entry(FALSE, "CHANGELOGTEXT", TAG.CHANGELOGTEXT, "StringArray", -1),
       Entry(FALSE, "OPTFLAGS", TAG.OPTFLAGS, "String", -1) >>

INSTALLATION_ENTRIES ==
    << <<"PREIN", TAG.PREIN, "PREINPROG", TAG.PREINPROG>>,
       <<"POSTIN", TAG.POSTIN, "POSTINPROG", TAG.POSTINPROG>>,
       <<"PREUN", TAG.PREUN, "PREUNPROG", TAG.PREUNPROG>>,
       <<"POSTUN", TAG.POSTUN, "POSTUNPROG", TAG.POSTUNPROG>> >>

FILE_ENTRIES ==
    << <<"FILESIZES", TAG.FILESIZES>>, <<"FILEMODES", TAG.FILEMODES>>,
       <<"FILERDEVS", TAG.FILERDEVS>>, <<"FILEMTIMES", TAG.FILEMTIMES>>,
       <<"FILEMD5S", TAG.FILEMD5S>>, <<"FILELINKTOS", TAG.FILELINKTOS>>,
       <<"FILEFLAGS", TAG.FILEFLAGS>>, <<"FILEUSERNAME", TAG.FILEUSERNAME>>,
       <<"FILEGROUPNAME", TAG.FILEGROUPNAME>>, <<"FILEDEVICES", TAG.FILEDEVICES>>,
       <<"FILEINODES", TAG.FILEINODES>>, <<"FILELANGS", TAG.FILELANGS>> >>

\* "rpmlib(compressedfilenames)"
REQUIRE_COMPRESSED_FILE_NAMES_Lowercase ==
    <<114,112,109,108,105,98,40,99,111,109,112,114,101,115,115,101,100,
      102,105,108,101,110,97,109,101,115,41>>

\* "rpmlib(CompressedFileNames)"
REQUIRE_COMPRESSED_FILE_NAMES ==
    <<114,112,109,108,105,98,40,67,111,109,112,114,101,115,115,101,100,
      70,105,108,101,78,97,109,101,115,41>>

\* "linux"
OS_STRING == <<108,105,110,117,120>>

\* "cpio"
PAYLOAD_FORMAT == <<99,112,105,111>>

\* the compressor names "gzip", "bzip2", "xz" and the default level "9"
STR == [gzip |-> <<103,122,105,112>>, bzip2 |-> <<98,122,105,112,50>>,
        xz |-> <<120,122>>, nine |-> <<57>>, root |-> <<114,111,111,116>>]

\* the required-entry loop of HeaderSection::new: every required tag that is
\* not yet in the table gets the default value of its type
SetRequiredDefaults(table, entries) ==
    table @@ [tag \in {entries[k].tag : k \in {k \in 1..Len(entries) : entries[k].required}} |->
                 IndexType_default_value(
                     entries[CHOOSE k \in 1..Len(entries) : entries[k].tag = tag].itype)]

\* HeaderSection::new
HeaderSection_new ==
    LET t1 == IndexTable_set(IndexTable_new, TAG.SIZE, Value("Int32", <<0>>))
        t2 == IndexTable_set(t1, TAG.OS, Value("String", OS_STRING))
        t3 == IndexTable_set(t2, TAG.PAYLOADFORMAT, Value("String", PAYLOAD_FORMAT))
        t4 == IndexTable_set(t3, TAG.PAYLOADCOMPRESSOR, Value("String", STR.gzip))
        t5 == IndexTable_set(t4, TAG.PAYLOADFLAGS, Value("String", STR.nine))
        t6 == IndexTable_set(t5, TAG.OLDFILENAMES, Value("StringArray", <<>>))
    IN  [table |-> SetRequiredDefaults(t6, ENTRIES), use_old_filenames |-> TRUE]

\* IndexTable::expect_string_value
IndexTable_expect_string_value(table, name, tag, value) ==
    IF IndexTable_get_typed(table, tag, "String") # value
    THEN [ok |-> FALSE, kind |-> "InvalidData", msg |-> "Incorrect value for entry",
          name |-> name]
    ELSE [ok |-> TRUE, kind |-> "Ok", msg |-> ""]

\* the loops over FILE_ENTRIES in HeaderSection::read
ExpectFileCounts(table, file_count) ==
    LET expect(k) == IndexTable_expect_count(table, file_count, FILE_ENTRIES[k][1],
                                             FILE_ENTRIES[k][2])
        first(failed) ==
            IF failed # {} THEN expect(Least(failed))
            ELSE [ok |-> TRUE, kind |-> "Ok", msg |-> ""]
    IN  first({k \in 1..Len(FILE_ENTRIES) : ~expect(k).ok})

\* HeaderSection::read, the part after the table is read and every entry
\* of ENTRIES is validated: the error of the first failing check, or Ok with
\* the naming scheme
HeaderSection_check(table) ==
    LET count(tag) == IndexValue_count(table[tag])
        use_old_filenames ==
            ~\E k \in 1..Len(table[TAG.REQUIRENAME].v) :
                table[TAG.REQUIRENAME].v[k] = REQUIRE_COMPRESSED_FILE_NAMES
        os == IndexTable_expect_string_value(table, "OS", TAG.OS, OS_STRING)
        format == IndexTable_expect_string_value(table, "PAYLOADFORMAT",
                                                 TAG.PAYLOADFORMAT, PAYLOAD_FORMAT)
        counted(counts) ==
            IF counts.ok
            THEN [ok |-> TRUE, kind |-> "Ok", msg |-> "",
                  use_old_filenames |-> use_old_filenames]
            ELSE counts
    IN
    IF ~os.ok THEN os
    ELSE IF ~format.ok THEN format
    ELSE IF \E k \in 1..Len(INSTALLATION_ENTRIES) :
               /\ IndexTable_has(table, INSTALLATION_ENTRIES[k][2])
               /\ ~IndexTable_has(table, INSTALLATION_ENTRIES[k][4])
    THEN InvalidData("Missing interpreter entry in Header section")
    ELSE IF count(TAG.REQUIREFLAGS) # count(TAG.REQUIRENAME)
    THEN InvalidData("Counts for REQUIRENAME and REQUIREFLAGS entries don't match")
    ELSE IF count(TAG.REQUIREVERSION) # count(TAG.REQUIRENAME)
    THEN InvalidData("Counts for REQUIRENAME and REQUIREVERSION entries don't match")
    ELSE IF use_old_filenames
    THEN IF ~IndexTable_has(table, TAG.OLDFILENAMES)
         THEN InvalidData("Missing OLDFILENAMES entry in Header section")
         ELSE counted(ExpectFileCounts(table, count(TAG.OLDFILENAMES)))
    ELSE IF ~IndexTable_has(table, TAG.DIRNAMES)
    THEN InvalidData("Missing DIRNAMES entry in Header section")
    ELSE IF ~IndexTable_has(table, TAG.BASENAMES)
    THEN InvalidData("Missing BASENAMES entry in Header section")
    ELSE IF ~IndexTable_has(table, TAG.DIRINDEXES)
    THEN InvalidData("Missing DIRINDEXES entry in Header section")
    ELSE IF \E k \in 1..Len(table[TAG.DIRINDEXES].v) :
               table[TAG.DIRINDEXES].v[k] >= count(TAG.DIRNAMES)
    THEN InvalidData("Invalid value in DIRINDEXES entry in Header section")
    ELSE IF ~IndexTable_expect_count(table, count(TAG.BASENAMES), "DIRINDEXES",
                                     TAG.DIRINDEXES).ok
    THEN IndexTable_expect_count(table, count(TAG.BASENAMES), "DIRINDEXES",
                                 TAG.DIRINDEXES)
    ELSE counted(ExpectFileCounts(table, count(TAG.BASENAMES)))

\* HeaderSection::read
HeaderSection_read(r, p) ==
    LET checked(table, check) ==
            IF ~check.ok THEN check
            ELSE [ok |-> TRUE, kind |-> "Ok", msg |-> "",
                  header |-> [table |-> table.table,
                              use_old_filenames |-> check.use_old_filenames],
                  pos |-> table.pos]
        validated(table, valid) ==
            IF ~valid.ok THEN valid
            ELSE checked(table, HeaderSection_check(table.table))
        with_table(table) ==
            IF ~table.ok THEN table
            ELSE validated(table, ValidateEntries(table.table, ENTRIES))
    IN  with_table(IndexTable_read(r, p, FALSE))

\* HeaderSection::write
HeaderSection_write(header) == IndexTable_write(header.table, FALSE)

\* HeaderSection::package_name
package_name(header) == IndexTable_get_typed(header.table, TAG.NAME, "String")

\* HeaderSection::set_package_name
set_package_name(header, name) ==
    [header EXCEPT !.table = IndexTable_set(@, TAG.NAME, Value("String", name))]

\* HeaderSection::version_string
version_string(header) == IndexTable_get_typed(header.table, TAG.VERSION, "String")

\* HeaderSection::set_version_string
set_version_string(header, version) ==
    [header EXCEPT !.table = IndexTable_set(@, TAG.VERSION, Value("String", version))]

\* HeaderSection::release_string
release_string(header) == IndexTable_get_typed(header.table, TAG.RELEASE, "String")

\* HeaderSection::set_release_string
set_release_string(header, release) ==
    [header EXCEPT !.table = IndexTable_set(@, TAG.RELEASE, Value("String", release))]

\* HeaderSection::payload_compressor
payload_compressor(header) ==
    IndexTable_get_typed(header.table, TAG.PAYLOADCOMPRESSOR, "String")

\* HeaderSection::set_payload_compressor
set_payload_compressor(header, compressor) ==
    [header EXCEPT !.table =
        IndexTable_set(@, TAG.PAYLOADCOMPRESSOR, Value("String", compressor))]

\* HeaderSection::payload_compression_level
payload_compression_level(header) ==
    IndexTable_get_typed(header.table, TAG.PAYLOADFLAGS, "String")

\* HeaderSection::set_payload_compression_level
set_payload_compression_level(header, level) ==
    [header EXCEPT !.table =
        IndexTable_set(@, TAG.PAYLOADFLAGS, Value("String", level))]

\* HeaderSection::total_install_size: the value under the SIZE tag, "the sum
\* of the sizes of the regular files in the archive"
total_install_size(header) ==
    IndexTable_get_nth_int(header.table, TAG.SIZE, "Int32", 0)

\* FileInfo::new
FileInfo_new(install_path, file_size) ==
    [name |-> install_path, size |-> file_size, mode |-> 420, rdev |-> 0,
     mtime |-> 0, md5 |-> <<>>, linkto |-> <<>>, flags |-> 0,
     user |-> STR.root, group |-> STR.root, device |-> 0, inode |-> 0,
     lang |-> <<>>]

\* FileInfo::size: the 32 bits of the stored size read as unsigned, which is
\* how the table holds them
FileInfo_size(file_info) == file_info.size

\* FileInfo::mode
FileInfo_mode(file_info) == file_info.mode % 65536

\* FileInfoIter::next for index idx (counted from 0)
FileInfoIter_item(header, idx) ==
    LET table == header.table
        dir_index == IndexTable_get_nth_int(table, TAG.DIRINDEXES, "Int32", idx)
    IN
    [name |-> IF header.use_old_filenames
              THEN IndexTable_get_nth_string(table, TAG.OLDFILENAMES, idx)
              ELSE IndexTable_get_nth_string(table, TAG.DIRNAMES, dir_index)
                       \o IndexTable_get_nth_string(table, TAG.BASENAMES, idx),
     size |-> IndexTable_get_nth_int(table, TAG.FILESIZES, "Int32", idx),
     mode |-> IndexTable_get_nth_int(table, TAG.FILEMODES, "Int16", idx),
     rdev |-> IndexTable_get_nth_int(table, TAG.FILERDEVS, "Int16", idx),
     mtime |-> IndexTable_get_nth_int(table, TAG.FILEMTIMES, "Int32", idx),
     md5 |-> IndexTable_get_nth_string(table, TAG.FILEMD5S, idx),
     linkto |-> IndexTable_get_nth_string(table, TAG.FILELINKTOS, idx),
     flags |-> IndexTable_get_nth_int(table, TAG.FILEFLAGS, "Int32", idx),
     user |-> IndexTable_get_nth_string(table, TAG.FILEUSERNAME, idx),
     group |-> IndexTable_get_nth_string(table, TAG.FILEGROUPNAME, idx),
     device |-> IndexTable_get_nth_int(table, TAG.FILEDEVICES, "Int32", idx),
     inode |-> IndexTable_get_nth_int(table, TAG.FILEINODES, "Int32", idx),
     lang |-> IndexTable_get_nth_string(table, TAG.FILELANGS, idx)]

\* HeaderSection::files, collected
HeaderSection_files(header) ==
    [k \in 1..IndexValue_count(header.table[TAG.FILESIZES]) |->
        FileInfoIter_item(header, k - 1)]

\* ChangeLogIter::next until it returns None, the entries collected: an
\* unwrap of a None panics.  An entry keeps the Int32 of CHANGELOGTIME as
\* it is stored.
RECURSIVE ChangeLogIter_collect(_, _, _, _)
ChangeLogIter_collect(table, next_index, length, entries) ==
    LET time == IndexTable_get_nth_int(table, TAG.CHANGELOGTIME, "Int32", next_index)
        author == IndexTable_get_nth_string(table, TAG.CHANGELOGNAME, next_index)
        description == IndexTable_get_nth_string(table, TAG.CHANGELOGTEXT, next_index)
        is_some(tag, types) ==
            /\ tag \in DOMAIN table
            /\ table[tag].t \in types
            /\ next_index < Len(table[tag].v)
    IN  IF next_index = length THEN [result |-> Ok, entries |-> entries]
        ELSE IF \/ ~is_some(TAG.CHANGELOGTIME, {"Int32"})
                \/ ~is_some(TAG.CHANGELOGNAME, {"StringArray", "I18nString"})
                \/ ~is_some(TAG.CHANGELOGTEXT, {"StringArray", "I18nString"})
        THEN [result |-> Panic("called Option::unwrap() on a None value"),
              entries |-> entries]
        ELSE ChangeLogIter_collect(table, next_index + 1, length,
                                   Append(entries,
                                          [time |-> <<time>>, author |-> author,
                                           description |-> description]))

\* HeaderSection::changelog, and the iterator it returns run to its end
HeaderSection_changelog(header) ==
    IF TAG.CHANGELOGTIME \notin DOMAIN header.table
    THEN [result |-> Panic("called Option::unwrap() on a None value"),
          entries |-> <<>>]
    ELSE ChangeLogIter_collect(header.table, 0,
                               IndexValue_count(header.table[TAG.CHANGELOGTIME]),
                               <<>>)

\* name.rfind('/').map(|i| i + 1).unwrap_or(0)
RECURSIVE AfterLastSlash(_, _)
AfterLastSlash(name, k) ==
    IF k = 0 THEN 0
    ELSE IF name[k] = 47 THEN k
    ELSE AfterLastSlash(name, k - 1)

\* a search of DIRNAMES that finds nothing
DirIndex_NotFound(dirnames, dirname, k) == Len(dirnames)

\* the position of dirname in DIRNAMES, or their count when it is not there
RECURSIVE DirIndex(_, _, _)
DirIndex(dirnames, dirname, k) ==
    IF k > Len(dirnames) THEN Len(dirnames)
    ELSE IF dirnames[k] = dirname THEN k - 1
    ELSE DirIndex(dirnames, dirname, k + 1)

\* the naming part of HeaderSection::add_file
add_file_name(header, name) ==
    IF header.use_old_filenames
    THEN IndexTable_push(header.table, TAG.OLDFILENAMES, name)
    ELSE LET slash == AfterLastSlash(name, Len(name))
             dirname == SubSeq(name, 1, slash)
             basename == SubSeq(name, slash + 1, Len(name))
             dirnames == IndexTable_get_typed(header.table, TAG.DIRNAMES, "StringArray")
             dirindex == DirIndex(dirnames, dirname, 1)
             t1 == IF dirindex = Len(dirnames)
                   THEN IndexTable_push(header.table, TAG.DIRNAMES, dirname)
                   ELSE header.table
             t2 == IndexTable_push(t1, TAG.BASENAMES, basename)
         IN  IndexTable_push(t2, TAG.DIRINDEXES, dirindex)

\* HeaderSection::add_file
HeaderSection_add_file(header, file_info) ==
    LET t0 == add_file_name(header, file_info.name)
        t1 == IndexTable_push(t0, TAG.FILESIZES, file_info.size)
        t2 == IndexTable_push(t1, TAG.FILEMODES, file_info.mode)
        t3 == IndexTable_push(t2, TAG.FILERDEVS, file_info.rdev)
        t4 == IndexTable_push(t3, TAG.FILEMTIMES, file_info.mtime)
        t5 == IndexTable_push(t4, TAG.FILEMD5S, file_info.md5)
        t6 == IndexTable_push(t5, TAG.FILELINKTOS, file_info.linkto)
        t7 == IndexTable_push(t6, TAG.FILEFLAGS, file_info.flags)
        t8 == IndexTable_push(t7, TAG.FILEUSERNAME, file_info.user)
        t9 == IndexTable_push(t8, TAG.FILEGROUPNAME, file_info.group)
        t10 == IndexTable_push(t9, TAG.FILEDEVICES, file_info.device)
        t11 == IndexTable_push(t10, TAG.FILEINODES, file_info.inode)
    IN  [header EXCEPT !.table = IndexTable_push(t11, TAG.FILELANGS, file_info.lang)]

-----------------------------------------------------------------------------
(* The collaborators: digests, compressed streams and cpio frames.  Their  *)
(* crates are outside the repository; each is modelled by a small format   *)
(* that keeps the contract the callers rely on: a digest is a function of  *)
(* the bytes fed to it and differs whenever one byte differs, a decoder    *)
(* gives back what the encoder of the same kind was fed, and a frame holds *)
(* a name, the attributes, the declared size and the body.                 *)

\* one 16-bit lane of a digest: a position-weighted sum of the bytes, modulo
\* the prime 65521
RECURSIVE DigestLane(_, _, _, _)
DigestLane(bytes, lane, lo, hi) ==
    IF lo > hi THEN 0
    ELSE IF lo = hi THEN ((lo + lane) * (bytes[lo] + 1)) % 65521
    ELSE LET mid == (lo + hi) \div 2
         IN  (DigestLane(bytes, lane, lo, mid) + DigestLane(bytes, lane, mid + 1, hi))
                 % 65521

\* a digest that depends on the number of bytes only
Md5_LengthOnly(bytes) == Zeros(12) \o U32BE(Len(bytes))

\* md5::Context fed bytes, then compute(): sixteen bytes
Md5(bytes) ==
    Flatten([lane \in 1..6 |-> U16BE(DigestLane(bytes, lane, 1, Len(bytes)))])
        \o U32BE(Len(bytes))

\* format!("{:x}", digest) and Sha1::hexdigest: two lower-case hex digits a byte
HexLower(bytes) ==
    LET digit(d) == IF d < 10 THEN 48 + d ELSE 87 + d
    IN  Flatten([k \in 1..Len(bytes) |-> <<digit(bytes[k] \div 16), digit(bytes[k] % 16)>>])

\* str::to_lowercase on the ASCII letters
ToLowercase(string) ==
    [k \in 1..Len(string) |->
        IF string[k] >= 65 /\ string[k] <= 90 THEN string[k] + 32 ELSE string[k]]

\* Sha1Writer fed bytes, then digest(): forty hex digits
Sha1Hex(bytes) ==
    HexLower(Flatten([k \in 1..10 |-> U16BE(DigestLane(bytes, 6 + k, 1, Len(bytes)))]))

\* the first bytes of a stream of each compressor
CODEC_MAGIC == [gzip |-> <<31, 139>>, bzip2 |-> <<66, 90>>, xz |-> <<253, 55>>]

\* the match on the compressor name with gzip as its last arm
CodecOf_ElseGzip(compressor) ==
    IF compressor = STR.bzip2 THEN "bzip2"
    ELSE IF compressor = STR.gzip THEN "gzip"
    ELSE IF compressor = STR.xz THEN "xz"
    ELSE "gzip"

\* the compressor a name selects in build and ArchiveSection::new
CodecOf(compressor) ==
    IF compressor = STR.bzip2 THEN "bzip2"
    ELSE IF compressor = STR.gzip THEN "gzip"
    ELSE IF compressor = STR.xz THEN "xz"
    ELSE "unsupported"

\* what an encoder has written to its sink once finish() returns, having
\* been fed input
Encode(codec, input) ==
    CODEC_MAGIC[codec] \o U32BE(Len(input))
        \o [k \in 1..Len(input) |-> (input[k] + 1) % 256]

\* what a decoder over data yields in all
Decode(codec, data) ==
    IF Len(data) < 2 THEN UnexpectedEof
    ELSE IF Take(data, 0, 2) # CODEC_MAGIC[codec]
    THEN InvalidData("corrupt compressed stream")
    ELSE IF Len(data) < 6 \/ Len(data) < 6 + ReadU32(Take(data, 2, 4))
    THEN UnexpectedEof
    ELSE [ok |-> TRUE, kind |-> "Ok", msg |-> "",
          output |-> [k \in 1..ReadU32(Take(data, 2, 4)) |-> (data[6 + k] + 255) % 256]]

\* "070701"
NEWC_MAGIC == <<48, 55, 48, 55, 48, 49>>

\* "TRAILER!!!"
NEWC_TRAILER == <<84, 82, 65, 73, 76, 69, 82, 33, 33, 33>>

\* the zero bytes that bring a length to a multiple of four
NewcPad(length) == Zeros((4 - (length % 4)) % 4)

\* cpio::newc::Builder::new(name).ino(..).mode(..).mtime(..).write(w, size):
\* the frame header, written when the writer is made
NewcHeader(name, ino, mode, mtime, file_size) ==
    LET fixed == NEWC_MAGIC \o U32BE(ino) \o U32BE(mode) \o U32BE(mtime)
                     \o U32BE(file_size) \o U16BE(Len(name) + 1)
    IN  fixed \o name \o <<0>> \o NewcPad(Len(fixed) + Len(name) + 1)

\* cpio::newc::trailer
NewcTrailer == NewcHeader(NEWC_TRAILER, 0, 0, 0, 0)

\* cpio::NewcReader::new on the decoded stream at position pos
NewcReader_new(stream, pos) ==
    IF Len(stream) < pos + 24 THEN UnexpectedEof
    ELSE IF Take(stream, pos, 6) # NEWC_MAGIC
    THEN InvalidData("Invalid magic number")
    ELSE LET namesize == ReadU16(Take(stream, pos + 22, 2))
             data_pos == pos + 24 + namesize + Len(NewcPad(24 + namesize))
         IN  IF namesize = 0 \/ Len(stream) < data_pos THEN UnexpectedEof
             ELSE [ok |-> TRUE, kind |-> "Ok", msg |-> "",
                   name |-> Take(stream, pos + 24, namesize - 1),
                   ino |-> ReadU32(Take(stream, pos + 6, 4)),
                   mode |-> ReadU32(Take(stream, pos + 10, 4)),
                   mtime |-> ReadU32(Take(stream, pos + 14, 4)),
                   file_size |-> ReadU32(Take(stream, pos + 18, 4)),
                   data_pos |-> data_pos]

\* is_trailer that takes no entry for the trailer
is_trailer_Never(entry) == FALSE

\* Entry::is_trailer
is_trailer(entry) == entry.name = NEWC_TRAILER

-----------------------------------------------------------------------------
(* src/internal/builder.rs                                                 *)

\* invalid_input!(msg): io::Error of kind InvalidInput
InvalidInput(m) == [ok |-> FALSE, kind |-> "InvalidInput", msg |-> m]

\* an error of the sink itself
WriterError == [ok |-> FALSE, kind |-> "Other", msg |-> "the writer failed"]

\* format!("{}", level)
RECURSIVE Decimal(_)
Decimal(n) == IF n < 10 THEN <<48 + n>> ELSE Decimal(n \div 10) \o <<48 + (n % 10)>>

\* level.parse::<u32>(): the number, or -1 for Err; the levels of the model
\* have few digits
RECURSIVE ParseDigits(_, _, _)
ParseDigits(string, k, acc) ==
    IF k > Len(string) THEN acc
    ELSE IF string[k] < 48 \/ string[k] > 57 THEN -1
    ELSE ParseDigits(string, k + 1, acc * 10 + (string[k] - 48))

ParseU32(string) ==
    LET digits == IF string # <<>> /\ string[1] = 43 THEN Tail(string) ELSE string
    IN  IF digits = <<>> THEN -1 ELSE ParseDigits(digits, 1, 0)

\* writing bytes at position pos of a seekable sink
WriteAt(sink, pos, bytes) ==
    SubSeq(sink, 1, pos) \o bytes \o SubSeq(sink, pos + Len(bytes) + 1, Len(sink))

\* an ArchiveBuilder that does not exist
NoArchiveBuilder ==
    [encoder |-> [some |-> FALSE, codec |-> "none", input |-> <<>>],
     signature_start |-> 0, signature |-> IndexTable_new, header_start |-> 0,
     file_infos |-> <<>>, next_file_index |-> 0]

\* a build that checks the compressor and the level before it writes
PackageBuilder_build_ChecksFirst(package_type, header) ==
    LET built(lead, signature, codec, level) ==
            IF codec = "unsupported"
            THEN [result |-> InvalidInput("Unsupported payload compressor"),
                  sink |-> <<>>,
                  archive |-> NoArchiveBuilder]
            ELSE IF ~(level >= 1 /\ level <= 9)
            THEN [result |-> InvalidInput("Invalid compression level"),
                  sink |-> <<>>,
                  archive |-> NoArchiveBuilder]
            ELSE [result |-> Ok,
                  sink |-> lead \o signature \o HeaderSection_write(header),
                  archive |-> [encoder |-> [some |-> TRUE, codec |-> codec,
                                            input |-> <<>>],
                               signature_start |-> Len(lead),
                               signature |-> SignatureSection_placeholder,
                               header_start |-> Len(lead) + Len(signature),
                               file_infos |-> HeaderSection_files(header),
                               next_file_index |-> 0]]
    IN  built(LeadSection_write(package_type,
                                package_name(header) \o <<45>> \o version_string(header)
                                    \o <<45>> \o release_string(header)),
              SignatureSection_write(SignatureSection_placeholder),
              CodecOf(payload_compressor(header)),
              ParseU32(payload_compression_level(header)))

\* PackageBuilder::build on an empty writer: the result, what the writer
\* holds, and the ArchiveBuilder when there is one
PackageBuilder_build(package_type, header) ==
    LET built(lead, signature, codec, level) ==
            IF codec = "unsupported"
            THEN [result |-> InvalidInput("Unsupported payload compressor"),
                  sink |-> lead \o signature \o HeaderSection_write(header),
                  archive |-> NoArchiveBuilder]
            ELSE IF ~(level >= 1 /\ level <= 9)
            THEN [result |-> InvalidInput("Invalid compression level"),
                  sink |-> lead \o signature \o HeaderSection_write(header),
                  archive |-> NoArchiveBuilder]
            ELSE [result |-> Ok,
                  sink |-> lead \o signature \o HeaderSection_write(header),
                  archive |-> [encoder |-> [some |-> TRUE, codec |-> codec,
                                            input |-> <<>>],
                               signature_start |-> Len(lead),
                               signature |-> SignatureSection_placeholder,
                               header_start |-> Len(lead) + Len(signature),
                               file_infos |-> HeaderSection_files(header),
                               next_file_index |-> 0]]
    IN  built(LeadSection_write(package_type,
                                package_name(header) \o <<45>> \o version_string(header)
                                    \o <<45>> \o release_string(header)),
              SignatureSection_write(SignatureSection_placeholder),
              CodecOf(payload_compressor(header)),
              ParseU32(payload_compression_level(header)))

\* the frame header ArchiveBuilder::next_file asks the cpio layer for
FrameHeader(file_info) ==
    NewcHeader(file_info.name, file_info.inode, FileInfo_mode(file_info),
               file_info.mtime, FileInfo_size(file_info))

\* next_file that takes the files from the last one to the first
ArchiveBuilder_next_file_Reversed(archive) ==
    [archive EXCEPT
        !.encoder.input = @ \o FrameHeader(archive.file_infos[Len(archive.file_infos)
                                                                  - archive.next_file_index]),
        !.next_file_index = @ + 1]

\* next_file without self.next_file_index += 1
ArchiveBuilder_next_file_NoAdvance(archive) ==
    [archive EXCEPT
        !.encoder.input = @ \o FrameHeader(archive.file_infos[archive.next_file_index + 1])]

\* ArchiveBuilder::next_file when a file is left
ArchiveBuilder_next_file(archive) ==
    [archive EXCEPT
        !.encoder.input = @ \o FrameHeader(archive.file_infos[archive.next_file_index + 1]),
        !.next_file_index = @ + 1]

\* Option::take that leaves the encoder in place
Option_take_Keep(encoder) == encoder

\* self.encoder.take(): what is left in the field
Option_take(encoder) == [encoder EXCEPT !.some = FALSE]

\* ArchiveBuilder::do_finish; fails says where the sink fails, if it does
ArchiveBuilder_do_finish(archive, sink, fails) ==
    LET signed(input, written, signature) ==
            IF fails = "signature"
            THEN [result |-> WriterError,
                  archive |-> [archive EXCEPT !.encoder = Option_take(@),
                                              !.encoder.input = input,
                                              !.signature = signature],
                  sink |-> written, pos |-> archive.signature_start, ran |-> TRUE]
            ELSE [result |-> Ok,
                  archive |-> [archive EXCEPT !.encoder = Option_take(@),
                                              !.encoder.input = input,
                                              !.signature = signature],
                  sink |-> WriteAt(written, archive.signature_start,
                                   SignatureSection_write(signature)),
                  pos |-> Len(written), ran |-> TRUE]
        archived(input, written) ==
            signed(input, written,
                   set_header_and_archive_md5(
                       set_header_and_archive_size(
                           set_uncompressed_archive_size(archive.signature, Len(input)),
                           Len(written) - archive.header_start),
                       Md5(Take(written, archive.header_start,
                                Len(written) - archive.header_start))))
        trailed(input) == archived(input, sink \o Encode(archive.encoder.codec, input))
    IN
    IF ~archive.encoder.some
    THEN [result |-> Panic("called Option::unwrap() on a None value"),
          archive |-> archive, sink |-> sink, pos |-> Len(sink), ran |-> TRUE]
    ELSE IF fails = "archive"
    THEN [result |-> WriterError, archive |-> [archive EXCEPT !.encoder = Option_take(@)],
          sink |-> sink, pos |-> Len(sink), ran |-> TRUE]
    ELSE trailed(archive.encoder.input \o NewcTrailer)

\* Drop for ArchiveBuilder
ArchiveBuilder_drop(archive, sink, pos, fails) ==
    IF archive.encoder.some
    THEN [ArchiveBuilder_do_finish(archive, sink, fails) EXCEPT !.result = Ok]
    ELSE [result |-> Ok, archive |-> archive, sink |-> sink, pos |-> pos, ran |-> FALSE]

\* ArchiveBuilder::finish: do_finish, then the drop of self
ArchiveBuilder_finish(archive, sink, fails) ==
    LET dropped(finished, after) ==
            [result |-> finished.result, archive |-> after.archive, sink |-> after.sink,
             pos |-> after.pos,
             runs |-> (IF finished.ran THEN 1 ELSE 0) + (IF after.ran THEN 1 ELSE 0)]
        done(finished) ==
            dropped(finished,
                    ArchiveBuilder_drop(finished.archive, finished.sink, finished.pos,
                                        fails))
    IN  done(ArchiveBuilder_do_finish(archive, sink, fails))

-----------------------------------------------------------------------------
(* src/internal/package.rs                                                 *)

\* a Package that does not exist
NoPackage ==
    [lead |-> [package_type |-> "Binary", name |-> <<>>],
     signature |-> IndexTable_new, header_start |-> 0,
     header |-> [table |-> IndexTable_new, use_old_filenames |-> TRUE],
     archive_start |-> 0]

\* SeekFrom::Start(n), SeekFrom::End(n) and SeekFrom::Current(n)
SeekFrom_Start(n) == [whence |-> "Start", offset |-> n]
SeekFrom_End(n) == [whence |-> "End", offset |-> n]
SeekFrom_Current(n) == [whence |-> "Current", offset |-> n]

\* a seek that takes SeekFrom::Start for SeekFrom::Current
Seek_StartIsCurrent(reader, pos, from) ==
    IF from.whence = "End" THEN Len(reader) + from.offset ELSE pos + from.offset

\* a seek that takes SeekFrom::End for SeekFrom::Current
Seek_EndIsCurrent(reader, pos, from) ==
    IF from.whence = "Start" THEN from.offset ELSE pos + from.offset

\* Seek::seek on a reader at position pos: the new position
Seek(reader, pos, from) ==
    CASE from.whence = "Start" -> from.offset
      [] from.whence = "End" -> Len(reader) + from.offset
      [] OTHER -> pos + from.offset

\* the position of the source once a decoder has read from it: the decoder
\* reads through a buffer, which takes all that is left of a source shorter
\* than the buffer
DecoderFill(reader, pos) == IF pos < Len(reader) THEN Len(reader) ELSE pos

\* Package::read: the reader is left where the Header section ends
Package_read(reader) ==
    LET with_header(lead, signature, header_start, header) ==
            IF ~header.ok THEN [result |-> header, package |-> NoPackage, pos |-> 0]
            ELSE [result |-> Ok,
                  package |-> [lead |-> [package_type |-> lead.package_type,
                                         name |-> lead.name],
                               signature |-> signature.table,
                               header_start |-> header_start,
                               header |-> header.header,
                               archive_start |-> Seek(reader, header.pos,
                                                      SeekFrom_Current(0))],
                  pos |-> Seek(reader, header.pos, SeekFrom_Current(0))]
        with_signature(lead, signature) ==
            IF ~signature.ok THEN [result |-> signature, package |-> NoPackage, pos |-> 0]
            ELSE with_header(lead, signature,
                             Seek(reader, signature.pos, SeekFrom_Current(0)),
                             HeaderSection_read(reader, Seek(reader, signature.pos,
                                                             SeekFrom_Current(0))))
        with_lead(lead) ==
            IF ~lead.ok THEN [result |-> lead, package |-> NoPackage, pos |-> 0]
            ELSE with_signature(lead, SignatureSection_read(reader, lead.pos))
    IN  with_lead(LeadSection_read(reader, 0))

\* an ArchiveSection that does not exist
NoArchiveSection ==
    [decoder |-> [codec |-> "none", input |-> <<>>, total_out |-> 0],
     done |-> FALSE, file |-> [some |-> FALSE, name |-> <<>>, size |-> 0, left |-> 0]]

\* ArchiveSection::new on a reader at position pos: the decoder decodes what
\* the reader gives from there on
ArchiveSection_new(compressor, reader, pos) ==
    LET codec == CodecOf(compressor) IN
    IF codec = "unsupported"
    THEN [result |-> InvalidData("Unsupported payload compressor"),
          section |-> NoArchiveSection, pos |-> pos]
    ELSE [result |-> Ok,
          section |-> [decoder |-> [codec |-> codec,
                                    input |-> SubSeq(reader, pos + 1, Len(reader)),
                                    total_out |-> 0],
                       done |-> FALSE,
                       file |-> [some |-> FALSE, name |-> <<>>, size |-> 0, left |-> 0]],
          pos |-> pos]

\* Package::read_archive on a reader at position pos
Package_read_archive(package, reader, pos) ==
    ArchiveSection_new(payload_compressor(package.header), reader,
                       Seek(reader, pos, SeekFrom_Start(package.archive_start)))

\* ArchiveSection::next_file: the result, whether it is Some, and the section
ArchiveSection_next_file(section) ==
    LET with_entry(reader) ==
            IF ~reader.ok THEN [result |-> reader, some |-> FALSE, section |-> section]
            ELSE IF is_trailer(reader)
            THEN [result |-> Ok, some |-> FALSE,
                  section |-> [section EXCEPT !.done = TRUE,
                                              !.decoder.total_out = reader.data_pos]]
            ELSE [result |-> Ok, some |-> TRUE,
                  section |-> [section EXCEPT
                                  !.decoder.total_out = reader.data_pos,
                                  !.file = [some |-> TRUE, name |-> reader.name,
                                            size |-> reader.file_size,
                                            left |-> reader.file_size]]]
        with_stream(stream) ==
            IF ~stream.ok THEN [result |-> stream, some |-> FALSE, section |-> section]
            ELSE with_entry(NewcReader_new(stream.output, section.decoder.total_out))
    IN
    IF section.done THEN [result |-> Ok, some |-> FALSE, section |-> section]
    ELSE with_stream(Decode(section.decoder.codec, section.decoder.input))

\* the bytes of the decoded stream a read of the FileReader to its end gives
FileReader_read_to_end(section) ==
    LET read(stream, from, upto) ==
            [bytes |-> SubSeq(stream, from + 1, upto),
             section |-> [section EXCEPT !.decoder.total_out = upto,
                                         !.file.left = @ - (upto - from)]]
        within(stream, from) ==
            read(stream, from,
                 IF from + section.file.left <= Len(stream)
                 THEN from + section.file.left ELSE Len(stream))
    IN  within(Decode(section.decoder.codec, section.decoder.input).output,
               section.decoder.total_out)

\* Drop for FileReader: the cpio reader's finish() skips what is left of
\* the body and the padding after it
FileReader_drop(section) ==
    LET skipped(length, upto) ==
            [section EXCEPT
                !.decoder.total_out = IF upto <= length THEN upto ELSE length,
                !.file = [some |-> FALSE, name |-> <<>>, size |-> 0, left |-> 0]]
    IN  skipped(Len(Decode(section.decoder.codec, section.decoder.input).output),
                section.decoder.total_out + section.file.left
                    + Len(NewcPad(section.file.size)))

\* a getter that gives None for every tag
IsSome_Never(table, tag, itype) == FALSE

\* whether a getter of the table gives Some for the tag
IsSome(table, tag, itype) == tag \in DOMAIN table /\ table[tag].t = itype

\* the while loop of Package::validate from file_index on, the checks made
\* being added to log: ValidateFiles is the loop at its head, ValidateFile
\* the body with what next_file gave, ValidateFileMd5 the digest check with
\* what the FileReader gave
RECURSIVE ValidateFiles(_, _, _, _, _)
RECURSIVE ValidateFile(_, _, _, _, _)
RECURSIVE ValidateFileMd5(_, _, _, _, _)
ValidateFileMd5(body, file_infos, file_index, actual_total_install_size, log) ==
    IF HexLower(Md5(body.bytes)) # ToLowercase(file_infos[file_index + 1].md5)
    THEN [result |-> InvalidData("Actual file MD5 digest does not match expected digest from package metadata"),
          section |-> body.section,
          actual_total_install_size |-> actual_total_install_size, log |-> log]
    ELSE ValidateFiles(FileReader_drop(body.section), file_infos, file_index + 1,
                       actual_total_install_size + body.section.file.size, log)

ValidateFile(next, file_infos, file_index, actual_total_install_size, log) ==
    IF ~next.result.ok \/ ~next.some
    THEN [result |-> next.result, section |-> next.section,
          actual_total_install_size |-> actual_total_install_size, log |-> log]
    ELSE IF file_index >= Len(file_infos)
    THEN [result |-> Panic("index out of bounds"), section |-> next.section,
          actual_total_install_size |-> actual_total_install_size, log |-> log]
    ELSE IF next.section.file.size # FileInfo_size(file_infos[file_index + 1])
    THEN [result |-> InvalidData("Actual file size does not match expected size from package metadata"),
          section |-> next.section,
          actual_total_install_size |-> actual_total_install_size,
          log |-> log \o <<"d">>]
    ELSE IF file_infos[file_index + 1].md5 # <<>>
    THEN ValidateFileMd5(FileReader_read_to_end(next.section), file_infos, file_index,
                         actual_total_install_size, log \o <<"d">>)
    ELSE ValidateFiles(FileReader_drop(next.section), file_infos, file_index + 1,
                       actual_total_install_size + next.section.file.size,
                       log \o <<"d">>)

ValidateFiles(section, file_infos, file_index, actual_total_install_size, log) ==
    ValidateFile(ArchiveSection_next_file(section), file_infos, file_index,
                 actual_total_install_size, log)

\* io::copy from a reader at position pos, of at most limit bytes: the bytes
\* and the position it leaves the reader at
Copy(reader, pos, limit) ==
    LET upto == IF pos + limit <= Len(reader) THEN pos + limit ELSE Len(reader)
    IN  [bytes |-> SubSeq(reader, pos + 1, upto), pos |-> IF pos <= upto THEN upto ELSE pos]

\* Package::validate on a reader at position pos: the result, in order the
\* checks that were made, and the position the reader is left at
Package_validate(package, reader, pos) ==
    LET payload_size_present == IsSome(package.signature, SIG_TAG_PAYLOAD_SIZE, "Int32")
        sha1_present == IsSome(package.signature, SIG_TAG_SHA1, "String")
        with_files(files, at) ==
            IF ~files.result.ok THEN [result |-> files.result, log |-> files.log, pos |-> at]
            ELSE IF files.actual_total_install_size # total_install_size(package.header)
            THEN [result |-> InvalidData("Actual total install size does not match expected size from package header"),
                  log |-> files.log \o <<"e">>, pos |-> at]
            ELSE IF /\ payload_size_present
                    /\ files.section.decoder.total_out
                           # uncompressed_archive_size(package.signature)
            THEN [result |-> InvalidData("Actual uncompressed archive size does not match expected size from package signature"),
                  log |-> files.log \o <<"e", "f">>, pos |-> at]
            ELSE [result |-> Ok,
                  log |-> files.log
                              \o (IF payload_size_present THEN <<"e", "f">> ELSE <<"e">>),
                  pos |-> at]
        with_archive(archive, log) ==
            IF ~archive.result.ok
            THEN [result |-> archive.result, log |-> log, pos |-> archive.pos]
            ELSE with_files(ValidateFiles(archive.section,
                                          HeaderSection_files(package.header), 0, 0, log),
                            DecoderFill(reader, archive.pos))
        with_sha1(header, log) ==
            IF Sha1Hex(header.bytes) # header_sha1(package.signature)
            THEN [result |-> InvalidData("Actual package header SHA1 digest does not match expected digest from package signature"),
                  log |-> log \o <<"c">>, pos |-> header.pos]
            ELSE with_archive(Package_read_archive(package, reader, header.pos),
                              log \o <<"c">>)
        with_md5(rest) ==
            IF Md5(rest.bytes) # header_and_archive_md5(package.signature)
            THEN [result |-> InvalidData("Actual package header/archive MD5 digest does not match expected digest from package signature"),
                  log |-> <<"a", "b">>, pos |-> rest.pos]
            ELSE IF sha1_present
            THEN with_sha1(Copy(reader,
                                Seek(reader, rest.pos, SeekFrom_Start(package.header_start)),
                                package.archive_start - package.header_start),
                           <<"a", "b">>)
            ELSE with_archive(Package_read_archive(package, reader, rest.pos),
                              <<"a", "b">>)
        with_end(archive_end) ==
            IF archive_end - package.header_start
                   # header_and_archive_size(package.signature)
            THEN [result |-> InvalidData("Actual package header/archive size does not match expected size from package signature"),
                  log |-> <<"a">>, pos |-> archive_end]
            ELSE with_md5(Copy(reader,
                               Seek(reader, archive_end,
                                    SeekFrom_Start(package.header_start)),
                               Len(reader)))
    IN  with_end(Seek(reader, pos, SeekFrom_End(0)))

-----------------------------------------------------------------------------
(* The Lead section on its own: a lead is written to a stream, the stream  *)
(* may continue with further bytes, bytes of it may be overwritten, and    *)
(* the stream is read back from position 0.                                *)

MaxLeadName == 66
MaxTampers == 2

\* the names a lead is built from: short ones, with and without NUL bytes,
\* and ones around the width of the name field
LeadNames ==
    {<<>>, <<104>>, <<104, 105>>, <<104, 0>>, <<104, 0, 105>>}
        \cup {[i \in 1..n |-> 97] : n \in (MaxLeadName - 2)..MaxLeadName}
        \cup {[i \in 1..MaxLeadName |-> IF i = LEAD_NAME_LEN THEN 0 ELSE 97]}

\* 0-based offsets of one byte of each field of the lead: magic, version,
\* type, arch, OS, signature type, reserved
TamperOffsets == {0, 5, 7, 8, 77, 79, 80}
TamperBytes == {0, 2}

\* IndexTable::validate has not been called
NotValidated == [entry |-> Entry(FALSE, "none", 0, "Null", -1), result |-> NoResult]

\* the part of the state an index table on its own lives in, at rest
TableIdle ==
    /\ t_table = IndexTable_new
    /\ t_pad = FALSE
    /\ t_bytes = <<>>
    /\ t_defect = "none"
    /\ t_result = NoResult
    /\ t_validated = NotValidated

\* changelog() has not been called
NoChangelog == [result |-> NoResult, entries |-> <<>>]

\* no Header section from elsewhere is being read
HeaderIdle ==
    /\ h_table = HeaderSection_new.table
    /\ h_edits = 0
    /\ h_result = NoResult
    /\ h_changelog = NoChangelog

\* files() has not been called
NotListed == [listed |-> FALSE, items |-> <<>>]

\* no file table is being filled
FilesIdle ==
    /\ f_header = HeaderSection_new
    /\ f_added = <<>>
    /\ f_files = NotListed

\* no size is being set in a signature
NoSizes == [uncompressed |-> <<>>, header_and_archive |-> <<>>]

NotAsked == [asked |-> FALSE]

SizeIdle ==
    /\ s_signature = SignatureSection_placeholder
    /\ s_size = NoSizes
    /\ s_got = NotAsked

\* no time and no index type is being converted
ConvertIdle ==
    /\ c_seconds = <<>> /\ c_time = NoTime /\ c_back = <<>>
    /\ i_type = "" /\ i_number = 0 /\ i_default = "" /\ i_from = ""

\* no package is being written or read
PipelineIdle ==
    /\ b_phase = "Idle" /\ b_type = "Binary" /\ b_header = HeaderSection_new
    /\ b_added = <<>> /\ b_sink = <<>> /\ b_pos = 0
    /\ b_archive = NoArchiveBuilder /\ b_written = <<>> /\ b_bodies = <<>>
    /\ b_runs = 0 /\ b_result = NoResult
    /\ p_damage = <<>> /\ p_result = NoResult /\ p_package = NoPackage
    /\ p_section = NoArchiveSection /\ p_next = NoResult /\ p_read = <<>>
    /\ p_bodies = <<>> /\ p_validate = [result |-> NoResult, log |-> <<>>]
    /\ p_pos = 0 /\ p_calls = <<>>

InitLead ==
    /\ TableIdle
    /\ HeaderIdle
    /\ ConvertIdle
    /\ FilesIdle
    /\ SizeIdle
    /\ PipelineIdle
    /\ l_type \in PackageTypes
    /\ l_name \in LeadNames
    /\ l_bytes = <<>>
    /\ l_tampers = 0
    /\ l_result = NoResult

\* LeadSection::new(l_type, l_name).write(stream)
LeadWrite ==
    /\ l_bytes = <<>>
    /\ l_result = NoResult
    /\ l_bytes' = LeadSection_write(l_type, l_name)
    /\ UNCHANGED <<l_type, l_name, l_tampers, l_result>>
    /\ UNCHANGED <<tableVars, headerVars, convertVars, builderVars, packageVars,
                   filesVars, sizeVars>>

\* the stream goes on after the lead (the index table magic of a signature)
LeadStreamGoesOn ==
    /\ Len(l_bytes) = Len(LeadSection_write(l_type, l_name))
    /\ l_result = NoResult
    /\ l_bytes' = l_bytes \o <<142, 173>>
    /\ UNCHANGED <<l_type, l_name, l_tampers, l_result>>
    /\ UNCHANGED <<tableVars, headerVars, convertVars, builderVars, packageVars,
                   filesVars, sizeVars>>

\* one byte of the written lead is overwritten
LeadTamper ==
    /\ l_bytes # <<>>
    /\ l_result = NoResult
    /\ l_tampers < MaxTampers
    /\ \E off \in TamperOffsets, b \in TamperBytes :
          /\ l_bytes[off + 1] # b
          /\ l_bytes' = [l_bytes EXCEPT ![off + 1] = b]
    /\ l_tampers' = l_tampers + 1
    /\ UNCHANGED <<l_type, l_name, l_result>>
    /\ UNCHANGED <<tableVars, headerVars, convertVars, builderVars, packageVars,
                   filesVars, sizeVars>>

\* LeadSection::read(stream)
LeadRead ==
    /\ l_result = NoResult
    /\ l_result' = LeadSection_read(l_bytes, 0)
    /\ UNCHANGED <<l_type, l_name, l_bytes, l_tampers>>
    /\ UNCHANGED <<tableVars, headerVars, convertVars, builderVars, packageVars,
                   filesVars, sizeVars>>

NextLead == LeadWrite \/ LeadStreamGoesOn \/ LeadTamper \/ LeadRead

SpecLead == InitLead /\ [][NextLead]_vars

-----------------------------------------------------------------------------
(* An index table on its own: values are set on a new table, the table is  *)
(* written with either pad setting, and the stream is read back with the   *)
(* pad setting it was written with.                                        *)

MaxTableTags == 2

TableTags == {-3, 7, 1000}

\* values of all ten variants: empty and non-empty arrays, odd lengths that
\* force alignment padding, strings with non-ASCII characters and with NUL
TableValues ==
    << Value("Null", <<>>),
      Value("Char", <<>>), Value("Char", <<1, 2, 3>>),
      Value("Int8", <<6>>),
      Value("Int16", <<>>), Value("Int16", <<890>>),
      Value("Int32", <<>>), Value("Int32", <<123, 70000>>),
      Value("Int64", <<>>), Value("Int64", <<9>>),
      Value("String", <<>>), Value("String", <<72, 195, 169>>),
      Value("String", <<72, 0, 105>>),
      Value("Binary", <<18, 200, 0>>),
      Value("StringArray", <<>>), Value("StringArray", <<<<102>>, <<>>>>),
      Value("StringArray", <<<<102, 0, 103>>>>),
      Value("I18nString", <<<<67>>>>) >>

\* no lead is being written or read
LeadIdle ==
    /\ l_type = "Binary" /\ l_name = <<>> /\ l_bytes = <<>>
    /\ l_tampers = 0 /\ l_result = NoResult

InitTable ==
    /\ LeadIdle
    /\ TableIdle
    /\ HeaderIdle
    /\ ConvertIdle
    /\ FilesIdle
    /\ SizeIdle
    /\ PipelineIdle

\* IndexTable::set(tag, value) on the table being built
TableSet ==
    /\ t_bytes = <<>>
    /\ t_validated = NotValidated
    /\ \E tag \in TableTags, k \in 1..Len(TableValues) :
          /\ tag \in DOMAIN t_table \/ Cardinality(DOMAIN t_table) < MaxTableTags
          /\ t_table' = IndexTable_set(t_table, tag, TableValues[k])
    /\ UNCHANGED <<t_pad, t_bytes, t_defect, t_result, t_validated>>
    /\ UNCHANGED <<leadVars, headerVars, convertVars, builderVars, packageVars,
                   filesVars, sizeVars>>

\* IndexTable::write(stream, pad)
TableWrite ==
    /\ t_bytes = <<>>
    /\ t_validated = NotValidated
    /\ \E pad \in BOOLEAN :
          /\ t_pad' = pad
          /\ t_bytes' = IndexTable_write(t_table, pad)
    /\ UNCHANGED <<t_table, t_defect, t_result, t_validated>>
    /\ UNCHANGED <<leadVars, headerVars, convertVars, builderVars, packageVars,
                   filesVars, sizeVars>>

\* IndexTable::read(stream, pad)
TableRead ==
    /\ t_bytes # <<>>
    /\ t_result = NoResult
    /\ t_result' = IndexTable_read(t_bytes, 0, t_pad)
    /\ UNCHANGED <<t_table, t_pad, t_bytes, t_defect, t_validated>>
    /\ UNCHANGED <<leadVars, headerVars, convertVars, builderVars, packageVars,
                   filesVars, sizeVars>>

\* schema entries over two of the tags: required or not, three types, no
\* fixed count or a fixed count of 1 or 2
SchemaEntries ==
    {Entry(required, "entry", tag, itype, count) :
        required \in BOOLEAN, tag \in {7, 1000},
        itype \in {"String", "Int32", "Binary"}, count \in {-1, 1, 2}}

\* IndexTable::validate(section, required, name, tag, itype, count) on the
\* table that was built
TableValidate ==
    /\ t_bytes = <<>>
    /\ t_validated = NotValidated
    /\ \E entry \in SchemaEntries :
          t_validated' = [entry |-> entry, result |-> IndexTable_validate(t_table, entry)]
    /\ UNCHANGED <<t_table, t_pad, t_bytes, t_defect, t_result>>
    /\ UNCHANGED <<leadVars, headerVars, convertVars, builderVars, packageVars,
                   filesVars, sizeVars>>

NextTable == TableSet \/ TableWrite \/ TableRead \/ TableValidate

SpecTable == InitTable /\ [][NextTable]_vars

-----------------------------------------------------------------------------
(* A written table stream is given one defect before it is read: a wrong   *)
(* magic number, a non-zero reserved word, a tag that repeats another      *)
(* entry's tag, a type code that names no IndexType, a String entry with a *)
(* count other than 1, or a byte that no UTF-8 string holds.               *)

\* type codes that name no IndexType
BadTypeNumbers == {-1, 10, 255}

\* counts a String entry must not have
BadStringCounts == {0, 2}

\* bytes that occur in no UTF-8 string
BadUtf8Bytes == {192, 255}

\* the bytes of the first string of a String, StringArray or I18nString
\* value as read_nul_terminated_string meets them: up to the first NUL
FirstStringRead(value) ==
    LET string == IF value.t = "String" THEN value.v
                  ELSE IF value.v = <<>> THEN <<>> ELSE value.v[1]
    IN  SubSeq(string, 1, FindNul(string, 0))

\* the streams that differ from the written stream by one defect, each with
\* the kind of its defect; entries are the index entries of the stream in
\* the order they were written, with their values and offsets
DefectiveStreams(stream, entries) ==
    LET index == 16
        store == 16 + 16 * Len(entries)
        strings == {i \in 1..Len(entries) :
                       entries[i].value.t \in {"String", "StringArray", "I18nString"}}
    IN  {[kind |-> "magic", bytes |-> [stream EXCEPT ![k] = (@ + 1) % 256]] :
             k \in 1..4}
        \cup {[kind |-> "reserved", bytes |-> [stream EXCEPT ![k] = 1]] : k \in 5..8}
        \cup {[kind |-> "tag",
               bytes |-> WriteAt(stream, index + 16 * (pair[2] - 1),
                                 I32BE(entries[pair[1]].tag))] :
                 pair \in {q \in (1..Len(entries)) \X (1..Len(entries)) : q[1] # q[2]}}
        \cup {[kind |-> "type",
               bytes |-> WriteAt(stream, index + 16 * (pair[1] - 1) + 4, I32BE(pair[2]))] :
                 pair \in (1..Len(entries)) \X BadTypeNumbers}
        \cup {[kind |-> "count",
               bytes |-> WriteAt(stream, index + 16 * (pair[1] - 1) + 12, U32BE(pair[2]))] :
                 pair \in {i \in strings : entries[i].value.t = "String"}
                              \X BadStringCounts}
        \cup UNION {{[kind |-> "utf8",
                      bytes |-> [stream EXCEPT ![store + entries[i].offset + pair[1]] =
                                                   pair[2]]] :
                        pair \in (1..Len(FirstStringRead(entries[i].value)))
                                     \X BadUtf8Bytes} :
                    i \in strings}

\* the stream is given one defect
TableDamage ==
    /\ t_bytes # <<>>
    /\ t_defect = "none"
    /\ t_result = NoResult
    /\ \E defective \in DefectiveStreams(t_bytes, IndexTable_store(t_table, t_pad).entries) :
          /\ t_bytes' = defective.bytes
          /\ t_defect' = defective.kind
    /\ UNCHANGED <<t_table, t_pad, t_result, t_validated>>
    /\ UNCHANGED <<leadVars, headerVars, convertVars, builderVars, packageVars,
                   filesVars, sizeVars>>

NextTableDamaged == TableSet \/ TableWrite \/ TableDamage \/ TableRead

SpecTableDamaged == InitTable /\ [][NextTableDamaged]_vars

-----------------------------------------------------------------------------
(* A Header section that another tool wrote: its table starts as the one   *)
(* of HeaderSection::new and entries of the file-naming and dependency     *)
(* groups are set or removed; the table is written as IndexTable::write    *)
(* lays it out and HeaderSection::read reads the stream.                   *)

MaxHeaderEdits == 4

\* one change of the table: the entries it sets and the tags it removes
Edit(sets, removes) == [sets |-> sets, removes |-> removes]

\* the REQUIRENAME, REQUIREFLAGS and REQUIREVERSION entries of a package
\* that requires the given names, with no flags and no versions
RequireEdit(names) ==
    Edit((TAG.REQUIRENAME :> Value("StringArray", names))
             @@ (TAG.REQUIREFLAGS :> Value("Int32", [k \in 1..Len(names) |-> 0]))
             @@ (TAG.REQUIREVERSION :> Value("StringArray", [k \in 1..Len(names) |-> <<>>])),
         {})

\* "rpmlib(CompressedFileNames)" and "o" as a package requires them
RequiredNames ==
    LET compressed == <<114,112,109,108,105,98,40,67,111,109,112,114,101,115,115,101,100,
                        70,105,108,101,78,97,109,101,115,41>>
    IN  {<<compressed>>, <<<<111>>>>, <<<<111>>, compressed>>}

HeaderEdits ==
    {RequireEdit(names) : names \in RequiredNames}
    \cup {Edit(TAG.REQUIREFLAGS :> Value("Int32", <<8, 8>>), {}),
          Edit(<<>>, {TAG.OLDFILENAMES}),
          Edit(TAG.DIRNAMES :> Value("StringArray", <<<<47>>>>), {}),
          Edit(TAG.BASENAMES :> Value("StringArray", <<>>), {}),
          Edit(TAG.DIRINDEXES :> Value("Int32", <<>>), {}),
          Edit(TAG.PROVIDENAME :> Value("StringArray", <<<<112>>>>), {}),
          Edit(TAG.PROVIDEFLAGS :> Value("Int32", <<8>>), {}),
          Edit(TAG.PROVIDEVERSION :> Value("StringArray", <<<<49>>>>), {}),
          Edit(TAG.CONFLICTNAME :> Value("StringArray", <<<<99>>>>), {}),
          Edit(TAG.CONFLICTFLAGS :> Value("Int32", <<8>>), {}),
          Edit(TAG.OBSOLETENAME :> Value("StringArray", <<<<111>>>>), {})}

\* the table with the entries of the edit set and its tags removed
Edited(table, edit) ==
    [tag \in (DOMAIN table \ edit.removes) \cup DOMAIN edit.sets |->
        IF tag \in DOMAIN edit.sets THEN edit.sets[tag] ELSE table[tag]]

\* the writer of the file sets or removes entries of the table
HeaderEdit ==
    /\ h_result = NoResult
    /\ h_edits < MaxHeaderEdits
    /\ \E edit \in HeaderEdits :
          /\ Edited(h_table, edit) # h_table
          /\ h_table' = Edited(h_table, edit)
    /\ h_edits' = h_edits + 1
    /\ UNCHANGED <<h_result, h_changelog>>
    /\ UNCHANGED <<leadVars, tableVars, convertVars, builderVars, packageVars,
                   filesVars, sizeVars>>

\* HeaderSection::read(reader) on the stream that holds the table
HeaderRead ==
    /\ h_result = NoResult
    /\ h_result' = HeaderSection_read(IndexTable_write(h_table, FALSE), 0)
    /\ UNCHANGED <<h_table, h_edits, h_changelog>>
    /\ UNCHANGED <<leadVars, tableVars, convertVars, builderVars, packageVars,
                   filesVars, sizeVars>>

InitHeader ==
    /\ LeadIdle
    /\ TableIdle
    /\ HeaderIdle
    /\ ConvertIdle
    /\ FilesIdle
    /\ SizeIdle
    /\ PipelineIdle

NextHeader == HeaderEdit \/ HeaderRead

SpecHeader == InitHeader /\ [][NextHeader]_vars

-----------------------------------------------------------------------------
(* The changelog on its own: the writer of the file sets the three         *)
(* changelog entries of the table of HeaderSection::new, the table is      *)
(* written and read, and changelog() is asked of the HeaderSection that    *)
(* the read accepted.                                                      *)

\* CHANGELOGTIME, CHANGELOGNAME and CHANGELOGTEXT of one and of two changes
ChangelogEdits ==
    {Edit(TAG.CHANGELOGTIME :> Value("Int32", <<1500000000>>), {}),
     Edit(TAG.CHANGELOGTIME :> Value("Int32", <<1500000000, 1500000060>>), {}),
     Edit(TAG.CHANGELOGTIME :> Value("Int32", <<>>), {}),
     Edit(TAG.CHANGELOGNAME :> Value("StringArray", <<<<110>>>>), {}),
     Edit(TAG.CHANGELOGNAME :> Value("StringArray", <<<<110>>, <<109>>>>), {}),
     Edit(TAG.CHANGELOGTEXT :> Value("StringArray", <<<<116>>>>), {}),
     Edit(TAG.CHANGELOGTEXT :> Value("StringArray", <<<<116>>, <<117>>>>), {})}

\* the writer of the file sets a changelog entry of the table
ChangelogEdit ==
    /\ h_result = NoResult
    /\ h_edits < MaxHeaderEdits
    /\ \E edit \in ChangelogEdits :
          /\ Edited(h_table, edit) # h_table
          /\ h_table' = Edited(h_table, edit)
    /\ h_edits' = h_edits + 1
    /\ UNCHANGED <<h_result, h_changelog>>
    /\ UNCHANGED <<leadVars, tableVars, convertVars, builderVars, packageVars,
                   filesVars, sizeVars>>

\* HeaderSection::changelog on the HeaderSection read, iterated to its end
HeaderChangelog ==
    /\ h_result # NoResult
    /\ h_result.ok
    /\ h_changelog = NoChangelog
    /\ h_changelog' = HeaderSection_changelog(h_result.header)
    /\ UNCHANGED <<h_table, h_edits, h_result>>
    /\ UNCHANGED <<leadVars, tableVars, convertVars, builderVars, packageVars,
                   filesVars, sizeVars>>

NextChangelog == ChangelogEdit \/ HeaderRead \/ HeaderChangelog

SpecChangelog == InitHeader /\ [][NextChangelog]_vars

-----------------------------------------------------------------------------
(* The file table on its own: files are added to a HeaderSection, one that *)
(* new() made (OLDFILENAMES scheme) or one that read() made from a table   *)
(* in the compressed scheme with no file in it, and files() lists them.    *)

MaxAdds == 3

\* the table of a package with no file that uses DIRNAMES, BASENAMES and
\* DIRINDEXES and says so under REQUIRENAME
CompressedTable ==
    LET required == RequireEdit(CHOOSE names \in RequiredNames :
                                    Len(names) = 1 /\ Len(names[1]) > 1)
        named == Edit((TAG.DIRNAMES :> Value("StringArray", <<>>))
                          @@ (TAG.BASENAMES :> Value("StringArray", <<>>))
                          @@ (TAG.DIRINDEXES :> Value("Int32", <<>>)),
                      {TAG.OLDFILENAMES})
    IN  Edited(Edited(HeaderSection_new.table, required), named)

\* the HeaderSections add_file is called on
FileTableHeaders ==
    {HeaderSection_new,
     HeaderSection_read(IndexTable_write(CompressedTable, FALSE), 0).header}

\* FileInfo::new("/a", 0), ("/b/c", 3), ("d", 1), ("/b/e", 2), and a second
\* record for "/a" with the mode, the time and the inode of a file on disk
FileRecords ==
    {FileInfo_new(<<47, 97>>, 0), FileInfo_new(<<47, 98, 47, 99>>, 3),
     FileInfo_new(<<100>>, 1), FileInfo_new(<<47, 98, 47, 101>>, 2),
     [FileInfo_new(<<47, 97>>, 7) EXCEPT !.mode = 493, !.mtime = 1500000000,
                                         !.inode = 77]}

InitFiles ==
    /\ LeadIdle
    /\ TableIdle
    /\ HeaderIdle
    /\ ConvertIdle
    /\ SizeIdle
    /\ PipelineIdle
    /\ f_header \in FileTableHeaders
    /\ f_added = <<>>
    /\ f_files = NotListed

\* HeaderSection::add_file(file_info)
FilesAdd ==
    /\ f_files = NotListed
    /\ Len(f_added) < MaxAdds
    /\ \E file_info \in FileRecords :
          /\ f_header' = HeaderSection_add_file(f_header, file_info)
          /\ f_added' = Append(f_added, file_info)
    /\ UNCHANGED f_files
    /\ UNCHANGED <<leadVars, tableVars, headerVars, convertVars, sizeVars,
                   builderVars, packageVars>>

\* header.files().collect()
FilesList ==
    /\ f_files = NotListed
    /\ f_files' = [listed |-> TRUE, items |-> HeaderSection_files(f_header)]
    /\ UNCHANGED <<f_header, f_added>>
    /\ UNCHANGED <<leadVars, tableVars, headerVars, convertVars, sizeVars,
                   builderVars, packageVars>>

NextFiles == FilesAdd \/ FilesList

SpecFiles == InitFiles /\ [][NextFiles]_vars

-----------------------------------------------------------------------------
(* The conversions on their own: a u32 is turned into a SystemTime, or the *)
(* clock gives one, and the SystemTime is turned into a u32; an IndexType  *)
(* gives its number and its default value, or a file gives a number, and   *)
(* the number is turned into an IndexType.                                 *)

\* 16-bit halves at the ends and in the middle of their range
Halves == {0, 1, 54321, 65534, 65535}

\* 0, 54321, 1520908554 and 0xffffffff are among them
SecondsU32 == (Halves \cup {23207}) \X (Halves \cup {14602})

\* times the clock gives: before and after the epoch, with and without a
\* fraction of a second, below and beyond 2^32 seconds (10,000,000,000 is
\* 2 * 2^32 + 21515 * 2^16 + 58368)
ClockTimes ==
    {[before |-> before, secs |-> <<0, high>> \o low, nanos |-> nanos] :
        before \in BOOLEAN, high \in {0, 1, 2},
        low \in {<<0, 0>>, <<0, 1>>, <<1525, 57600>>, <<21515, 58368>>,
                 <<65535, 65534>>, <<65535, 65535>>},
        nanos \in {0, 999999999}}

\* u32_to_system_time(seconds)
ToSystemTime ==
    /\ c_time = NoTime
    /\ \E seconds \in SecondsU32 :
          /\ c_seconds' = seconds
          /\ c_time' = u32_to_system_time(seconds)
    /\ UNCHANGED <<c_back, i_type, i_number, i_default, i_from>>
    /\ UNCHANGED <<leadVars, tableVars, headerVars, builderVars, packageVars,
                   filesVars, sizeVars>>

\* the time comes from the clock or from a file's metadata
ClockTime ==
    /\ c_time = NoTime
    /\ c_time' \in ClockTimes
    /\ UNCHANGED <<c_seconds, c_back, i_type, i_number, i_default, i_from>>
    /\ UNCHANGED <<leadVars, tableVars, headerVars, builderVars, packageVars,
                   filesVars, sizeVars>>

\* system_time_to_u32(timestamp)
ToU32 ==
    /\ c_time # NoTime
    /\ c_back = <<>>
    /\ c_back' = system_time_to_u32(c_time)
    /\ UNCHANGED <<c_seconds, c_time, i_type, i_number, i_default, i_from>>
    /\ UNCHANGED <<leadVars, tableVars, headerVars, builderVars, packageVars,
                   filesVars, sizeVars>>

\* numbers an index entry may carry as its type: all of a few around 0..9
\* and the ends of the i32 range
TypeNumbers == (-3..12) \cup {-2147483647 - 1, -256, 255, 256, 2147483647}

\* index_type.number() and index_type.default_value().index_type()
TypeNumber ==
    /\ i_type = ""
    /\ \E k \in 1..Len(IndexTypes) :
          /\ i_type' = IndexTypes[k]
          /\ i_number' = IndexType_number(IndexTypes[k])
          /\ i_default' = IndexValue_index_type(IndexType_default_value(IndexTypes[k]))
    /\ UNCHANGED <<c_seconds, c_time, c_back, i_from>>
    /\ UNCHANGED <<leadVars, tableVars, headerVars, builderVars, packageVars,
                   filesVars, sizeVars>>

\* the number comes from an index entry
EntryNumber ==
    /\ i_type = ""
    /\ i_type' = "None"
    /\ i_number' \in TypeNumbers
    /\ UNCHANGED <<c_seconds, c_time, c_back, i_default, i_from>>
    /\ UNCHANGED <<leadVars, tableVars, headerVars, builderVars, packageVars,
                   filesVars, sizeVars>>

\* IndexType::from_number(number)
FromNumber ==
    /\ i_type # ""
    /\ i_from = ""
    /\ i_from' = IndexType_from_number(i_number)
    /\ UNCHANGED <<c_seconds, c_time, c_back, i_type, i_number, i_default>>
    /\ UNCHANGED <<leadVars, tableVars, headerVars, builderVars, packageVars,
                   filesVars, sizeVars>>

InitConvert ==
    /\ LeadIdle
    /\ TableIdle
    /\ HeaderIdle
    /\ ConvertIdle
    /\ FilesIdle
    /\ SizeIdle
    /\ PipelineIdle

NextConvert ==
    ToSystemTime \/ ClockTime \/ ToU32 \/ TypeNumber \/ EntryNumber \/ FromNumber

SpecConvert == InitConvert /\ [][NextConvert]_vars

-----------------------------------------------------------------------------
(* The sizes of the signature on their own, in the width of the code: a    *)
(* size is a u64 of four 16-bit halves and the stored value a u32 of two,  *)
(* as in the conversions.  do_finish gives the two sizes to the setters,   *)
(* the getters are asked, and validate compares what they return with the  *)
(* lengths it measures on a package that was not changed since.            *)

\* the u64 sizes do_finish may measure: below 2^32, at 2^32 and above
Sizes64 ==
    {<<0, 0, 0, 0>>, <<0, 0, 0, 96>>, <<0, 0, 1, 0>>, <<0, 0, 65535, 65535>>,
     <<0, 1, 0, 0>>, <<0, 1, 0, 96>>, <<1, 0, 65535, 65535>>,
     <<65535, 65535, 65535, 65535>>}

\* SignatureSection::placeholder, its Int32 values as u32 halves
SignatureSection_placeholder_u32 ==
    IndexTable_set(
        IndexTable_set(SignatureSection_placeholder,
                       SIG_TAG_SIZE, Value("Int32", << <<0, 0>> >>)),
        SIG_TAG_PAYLOAD_SIZE, Value("Int32", << <<0, 0>> >>))

\* SignatureSection::set_header_and_archive_size on a u64
set_header_and_archive_size_u64(signature, size) ==
    IndexTable_set(signature, SIG_TAG_SIZE, Value("Int32", <<U64AsU32(size)>>))

\* SignatureSection::header_and_archive_size as the u64 it returns
header_and_archive_size_u64(signature) ==
    U32AsU64(IndexTable_get_nth_int(signature, SIG_TAG_SIZE, "Int32", 0))

\* SignatureSection::set_uncompressed_archive_size on a u64
set_uncompressed_archive_size_u64(signature, size) ==
    IndexTable_set(signature, SIG_TAG_PAYLOAD_SIZE,
                   Value("Int32", <<U64AsU32(size)>>))

\* SignatureSection::uncompressed_archive_size as the Option<u64> it returns
uncompressed_archive_size_u64(signature) ==
    IF IsSome(signature, SIG_TAG_PAYLOAD_SIZE, "Int32")
    THEN [some |-> TRUE,
          value |-> U32AsU64(IndexTable_get_nth_int(signature, SIG_TAG_PAYLOAD_SIZE,
                                                    "Int32", 0))]
    ELSE [some |-> FALSE, value |-> <<>>]

\* the two size checks of Package::validate, on the lengths it measures
validate_sizes(signature, actual_size, actual_uncompressed_size) ==
    LET expected == uncompressed_archive_size_u64(signature)
    IN  IF actual_size # header_and_archive_size_u64(signature)
        THEN InvalidData("Actual package header/archive size does not match expected size from package signature")
        ELSE IF /\ expected.some
                /\ actual_uncompressed_size # expected.value
        THEN InvalidData("Actual uncompressed archive size does not match expected size from package signature")
        ELSE Ok

InitSizes ==
    /\ LeadIdle
    /\ TableIdle
    /\ HeaderIdle
    /\ ConvertIdle
    /\ FilesIdle
    /\ PipelineIdle
    /\ s_signature = SignatureSection_placeholder_u32
    /\ s_size = NoSizes
    /\ s_got = NotAsked

\* do_finish: self.signature.set_uncompressed_archive_size(uncompressed_bytes)
SizeSetUncompressed ==
    /\ s_size.uncompressed = <<>>
    /\ \E uncompressed_bytes \in Sizes64 :
           /\ s_signature' = set_uncompressed_archive_size_u64(s_signature,
                                                               uncompressed_bytes)
           /\ s_size' = [s_size EXCEPT !.uncompressed = uncompressed_bytes]
    /\ UNCHANGED s_got
    /\ UNCHANGED <<leadVars, tableVars, headerVars, convertVars, filesVars,
                   builderVars, packageVars>>

\* do_finish: self.signature.set_header_and_archive_size(header_and_archive_size)
SizeSetHeaderAndArchive ==
    /\ s_size.uncompressed # <<>>
    /\ s_size.header_and_archive = <<>>
    /\ \E size \in Sizes64 :
           /\ s_signature' = set_header_and_archive_size_u64(s_signature, size)
           /\ s_size' = [s_size EXCEPT !.header_and_archive = size]
    /\ UNCHANGED s_got
    /\ UNCHANGED <<leadVars, tableVars, headerVars, convertVars, filesVars,
                   builderVars, packageVars>>

\* the two getters are asked
SizeGet ==
    /\ s_size.header_and_archive # <<>>
    /\ s_got = NotAsked
    /\ s_got' = [asked |-> TRUE,
                 header_and_archive_size |-> header_and_archive_size_u64(s_signature),
                 uncompressed_archive_size |->
                     uncompressed_archive_size_u64(s_signature),
                 validate |-> NoResult]
    /\ UNCHANGED <<s_signature, s_size>>
    /\ UNCHANGED <<leadVars, tableVars, headerVars, convertVars, filesVars,
                   builderVars, packageVars>>

\* validate measures the lengths do_finish measured
SizeValidate ==
    /\ s_got.asked
    /\ s_got.validate = NoResult
    /\ s_got' = [s_got EXCEPT
                    !.validate = validate_sizes(s_signature, s_size.header_and_archive,
                                                s_size.uncompressed)]
    /\ UNCHANGED <<s_signature, s_size>>
    /\ UNCHANGED <<leadVars, tableVars, headerVars, convertVars, filesVars,
                   builderVars, packageVars>>

NextSizes == SizeSetUncompressed \/ SizeSetHeaderAndArchive \/ SizeGet \/ SizeValidate

SpecSizes == InitSizes /\ [][NextSizes]_vars

-----------------------------------------------------------------------------
(* The write pipeline and the read pipeline: a PackageBuilder is set up,   *)
(* build gives an ArchiveBuilder, the files are written through their      *)
(* FileWriters, and finish or a drop closes the package; the file may then *)
(* be damaged; Package::read opens it, and validate and the archive        *)
(* iteration run on it.                                                    *)

MaxFiles == 2
MaxDamagedBytes == 1
MaxCalls == 3

\* "hello", "0.1.2", "debug"
PackageNames == {<<104, 101, 108, 108, 111>>}
VersionStrings == {<<48, 46, 49, 46, 50>>}
ReleaseStrings == {<<100, 101, 98, 117, 103>>}

\* the arguments of set_payload_compression: bzip2 at 6, xz at 1, gzip at 0,
\* xz at 10, and "zip" at 5
Compressions ==
    {<<STR.bzip2, 6>>, <<STR.xz, 1>>, <<STR.gzip, 0>>, <<STR.xz, 10>>,
     <<<<122, 105, 112>>, 5>>}

\* FileInfo::new("/a", 0) and FileInfo::new("/b/c", 3)
FileInfos == {FileInfo_new(<<47, 97>>, 0), FileInfo_new(<<47, 98, 47, 99>>, 3)}

\* what a caller writes for a file of the given size
FileBodies(size) ==
    IF size = 0 THEN {<<>>}
    ELSE {[k \in 1..size |-> 64 + k], [k \in 1..size |-> 96 + k]}

\* where the writer may fail during do_finish
WriterFailures == {"none", "archive", "signature"}

Init ==
    /\ LeadIdle
    /\ TableIdle
    /\ HeaderIdle
    /\ ConvertIdle
    /\ FilesIdle
    /\ SizeIdle
    /\ b_phase = "PackageBuilder"
    /\ b_type \in PackageTypes
    /\ b_header = HeaderSection_new
    /\ b_added = <<>> /\ b_sink = <<>> /\ b_pos = 0
    /\ b_archive = NoArchiveBuilder /\ b_written = <<>> /\ b_bodies = <<>>
    /\ b_runs = 0 /\ b_result = NoResult
    /\ p_damage = <<>> /\ p_result = NoResult /\ p_package = NoPackage
    /\ p_section = NoArchiveSection /\ p_next = NoResult /\ p_read = <<>>
    /\ p_bodies = <<>> /\ p_validate = [result |-> NoResult, log |-> <<>>]
    /\ p_pos = 0 /\ p_calls = <<>>

\* the caller sets the name, the version and the release in that order,
\* may set the compression, and then adds the files: the setters write
\* different tags, so another order gives the same header
Untouched(tags) ==
    \A tag \in tags : b_header.table[tag] = HeaderSection_new.table[tag]

Named == ~Untouched({TAG.NAME}) /\ ~Untouched({TAG.VERSION}) /\ ~Untouched({TAG.RELEASE})

\* PackageBuilder::set_package_name
SetPackageName ==
    /\ b_phase = "PackageBuilder"
    /\ Untouched({TAG.NAME, TAG.VERSION, TAG.RELEASE})
    /\ \E name \in PackageNames : b_header' = set_package_name(b_header, name)
    /\ UNCHANGED <<b_phase, b_type, b_added, b_sink, b_pos, b_archive, b_written,
                   b_bodies, b_runs, b_result>>
    /\ UNCHANGED <<leadVars, tableVars, headerVars, convertVars, packageVars,
                   filesVars, sizeVars>>

\* PackageBuilder::set_version_string
SetVersionString ==
    /\ b_phase = "PackageBuilder"
    /\ ~Untouched({TAG.NAME}) /\ Untouched({TAG.VERSION, TAG.RELEASE})
    /\ \E version \in VersionStrings :
           b_header' = set_version_string(b_header, version)
    /\ UNCHANGED <<b_phase, b_type, b_added, b_sink, b_pos, b_archive, b_written,
                   b_bodies, b_runs, b_result>>
    /\ UNCHANGED <<leadVars, tableVars, headerVars, convertVars, packageVars,
                   filesVars, sizeVars>>

\* PackageBuilder::set_release_string
SetReleaseString ==
    /\ b_phase = "PackageBuilder"
    /\ ~Untouched({TAG.VERSION}) /\ Untouched({TAG.RELEASE})
    /\ \E release \in ReleaseStrings :
           b_header' = set_release_string(b_header, release)
    /\ UNCHANGED <<b_phase, b_type, b_added, b_sink, b_pos, b_archive, b_written,
                   b_bodies, b_runs, b_result>>
    /\ UNCHANGED <<leadVars, tableVars, headerVars, convertVars, packageVars,
                   filesVars, sizeVars>>

\* PackageBuilder::set_payload_compression
SetPayloadCompression ==
    /\ b_phase = "PackageBuilder"
    /\ Named
    /\ Untouched({TAG.PAYLOADCOMPRESSOR, TAG.PAYLOADFLAGS})
    /\ b_added = <<>>
    /\ \E compression \in Compressions :
           b_header' = set_payload_compression_level(
                           set_payload_compressor(b_header, compression[1]),
                           Decimal(compression[2]))
    /\ UNCHANGED <<b_phase, b_type, b_added, b_sink, b_pos, b_archive, b_written,
                   b_bodies, b_runs, b_result>>
    /\ UNCHANGED <<leadVars, tableVars, headerVars, convertVars, packageVars,
                   filesVars, sizeVars>>

\* PackageBuilder::add_file
AddFile ==
    /\ b_phase = "PackageBuilder"
    /\ Named
    /\ Len(b_added) < MaxFiles
    /\ \E file_info \in FileInfos :
           /\ b_header' = HeaderSection_add_file(b_header, file_info)
           /\ b_added' = Append(b_added, file_info)
    /\ UNCHANGED <<b_phase, b_type, b_sink, b_pos, b_archive, b_written,
                   b_bodies, b_runs, b_result>>
    /\ UNCHANGED <<leadVars, tableVars, headerVars, convertVars, packageVars,
                   filesVars, sizeVars>>

\* PackageBuilder::build on an empty writer
Build ==
    /\ b_phase = "PackageBuilder"
    /\ Named
    /\ \E built \in {PackageBuilder_build(b_type, b_header)} :
           /\ b_result' = built.result
           /\ b_sink' = built.sink
           /\ b_pos' = Len(built.sink)
           /\ b_archive' = built.archive
           /\ b_phase' = IF built.result.ok THEN "ArchiveBuilder" ELSE "NotBuilt"
    /\ UNCHANGED <<b_type, b_header, b_added, b_written, b_bodies, b_runs>>
    /\ UNCHANGED <<leadVars, tableVars, headerVars, convertVars, packageVars,
                   filesVars, sizeVars>>

\* the result of a next_file that gives a FileWriter or a FileReader
Some == [ok |-> TRUE, kind |-> "Some", msg |-> ""]

\* the result of a next_file that gives none
None == [ok |-> TRUE, kind |-> "None", msg |-> ""]

\* the file the live FileWriter is for
CurrentFile == b_archive.file_infos[b_archive.next_file_index]

\* ArchiveBuilder::next_file
NextFile ==
    /\ b_phase = "ArchiveBuilder"
    /\ IF b_archive.next_file_index >= Len(b_archive.file_infos)
       THEN /\ b_result' = None
            /\ UNCHANGED <<b_phase, b_archive>>
       ELSE /\ b_result' = Some
            /\ b_archive' = ArchiveBuilder_next_file(b_archive)
            /\ b_phase' = "FileWriter"
    /\ UNCHANGED <<b_type, b_header, b_added, b_sink, b_pos, b_written, b_bodies, b_runs>>
    /\ UNCHANGED <<leadVars, tableVars, headerVars, convertVars, packageVars,
                   filesVars, sizeVars>>

\* FileWriter::write of the whole body of the file
FileWrite ==
    /\ b_phase = "FileWriter"
    /\ b_written = <<>>
    /\ FileInfo_size(CurrentFile) > 0
    /\ \E body \in FileBodies(FileInfo_size(CurrentFile)) :
           /\ b_archive' = [b_archive EXCEPT !.encoder.input = @ \o body]
           /\ b_written' = body
    /\ b_result' = Ok
    /\ UNCHANGED <<b_phase, b_type, b_header, b_added, b_sink, b_pos, b_bodies, b_runs>>
    /\ UNCHANGED <<leadVars, tableVars, headerVars, convertVars, packageVars,
                   filesVars, sizeVars>>

\* Drop for FileWriter, once the bytes of the file are written: the cpio
\* writer's finish() pads the body
FileWriterDrop ==
    /\ b_phase = "FileWriter"
    /\ Len(b_written) = FileInfo_size(CurrentFile)
    /\ b_archive' = [b_archive EXCEPT !.encoder.input = @ \o NewcPad(Len(b_written))]
    /\ b_bodies' = Append(b_bodies, b_written)
    /\ b_written' = <<>>
    /\ b_phase' = "ArchiveBuilder"
    /\ UNCHANGED <<b_type, b_header, b_added, b_sink, b_pos, b_runs, b_result>>
    /\ UNCHANGED <<leadVars, tableVars, headerVars, convertVars, packageVars,
                   filesVars, sizeVars>>

\* ArchiveBuilder::finish
Finish ==
    /\ b_phase = "ArchiveBuilder"
    /\ \E fails \in WriterFailures :
       \E finished \in {ArchiveBuilder_finish(b_archive, b_sink, fails)} :
           /\ b_result' = finished.result
           /\ b_archive' = finished.archive
           /\ b_sink' = finished.sink
           /\ b_pos' = finished.pos
           /\ b_runs' = b_runs + finished.runs
    /\ b_phase' = "Finished"
    /\ UNCHANGED <<b_type, b_header, b_added, b_written, b_bodies>>
    /\ UNCHANGED <<leadVars, tableVars, headerVars, convertVars, packageVars,
                   filesVars, sizeVars>>

\* an ArchiveBuilder goes out of scope without finish
DropArchiveBuilder ==
    /\ b_phase = "ArchiveBuilder"
    /\ \E fails \in WriterFailures :
       \E dropped \in {ArchiveBuilder_drop(b_archive, b_sink, b_pos, fails)} :
           /\ b_result' = dropped.result
           /\ b_archive' = dropped.archive
           /\ b_sink' = dropped.sink
           /\ b_pos' = dropped.pos
           /\ b_runs' = b_runs + (IF dropped.ran THEN 1 ELSE 0)
    /\ b_phase' = "Dropped"
    /\ UNCHANGED <<b_type, b_header, b_added, b_written, b_bodies>>
    /\ UNCHANGED <<leadVars, tableVars, headerVars, convertVars, packageVars,
                   filesVars, sizeVars>>

\* finish returned the writer with the whole package in it
Sealed == b_phase = "Finished" /\ b_result.ok

\* places in the Header section of the written file: the last byte of the
\* magic number, the type of the first index entry, and bytes of the values
\* of some tags
HeaderOffsets ==
    LET places(entries, data_start) ==
            {b_archive.header_start + 3, b_archive.header_start + 16 + 7}
                \cup {data_start + entries[k].offset + (IF entries[k].tag = TAG.SIZE THEN 3 ELSE 0) :
                         k \in {k \in 1..Len(entries) :
                                   /\ entries[k].tag \in {TAG.SIZE, TAG.FILEMD5S,
                                                           TAG.PAYLOADCOMPRESSOR}
                                   /\ entries[k].value.v # <<>>}}
        stored(entries) == places(entries, b_archive.header_start + 16 + 16 * Len(entries))
    IN  stored(IndexTable_store(b_header.table, FALSE).entries)

\* the values a damaged byte gets
DamagedBytes == {3, 65}

\* one byte of the Header section of the file changes
DamageHeaderByte ==
    /\ Sealed
    /\ p_result = NoResult
    /\ \A k \in 1..Len(p_damage) : p_damage[k] = "byte"
    /\ Len(p_damage) < MaxDamagedBytes
    /\ \E offset \in HeaderOffsets, byte \in DamagedBytes :
           /\ b_sink[offset + 1] # byte
           /\ b_sink' = [b_sink EXCEPT ![offset + 1] = byte]
    /\ p_damage' = Append(p_damage, "byte")
    /\ UNCHANGED <<b_phase, b_type, b_header, b_added, b_pos, b_archive, b_written,
                   b_bodies, b_runs, b_result>>
    /\ UNCHANGED <<p_result, p_package, p_section, p_next, p_read, p_bodies, p_validate,
                   p_pos, p_calls>>
    /\ UNCHANGED <<leadVars, tableVars, headerVars, convertVars,
                   filesVars, sizeVars>>

\* which fields a new Signature section gets wrong or leaves out
SignatureDefects ==
    {{}, {"NoSHA1"}, {"NoSHA1", "NoPAYLOAD_SIZE"}, {"SIZE", "MD5"}, {"MD5", "SHA1"},
     {"SHA1", "PAYLOAD_SIZE"}, {"NoSHA1", "PAYLOAD_SIZE"}}

\* the Signature section another tool computes for the rest of the file
ForeignSignature(rest, md5, sha1, payload_size, defects) ==
    LET t1 == IndexTable_set(IndexTable_new, SIG_TAG_SIZE,
                  Value("Int32", <<Len(rest) + (IF "SIZE" \in defects THEN 1 ELSE 0)>>))
        t2 == IndexTable_set(t1, SIG_TAG_MD5,
                  Value("Binary", IF "MD5" \in defects THEN Zeros(MD5_LEN) ELSE md5))
        t3 == IF "NoSHA1" \in defects THEN t2
              ELSE IndexTable_set(t2, SIG_TAG_SHA1,
                       Value("String", IF "SHA1" \in defects THEN HexLower(<<0>>) ELSE sha1))
    IN  IF "NoPAYLOAD_SIZE" \in defects THEN t3
        ELSE IndexTable_set(t3, SIG_TAG_PAYLOAD_SIZE,
                 Value("Int32", <<payload_size
                                      + (IF "PAYLOAD_SIZE" \in defects THEN 1 ELSE 0)>>))

\* another tool replaces the Signature section of the file
ReplaceSignature ==
    /\ Sealed
    /\ p_result = NoResult
    /\ \A k \in 1..Len(p_damage) : p_damage[k] # "signature"
    /\ \E rest \in {SubSeq(b_sink, b_archive.header_start + 1, Len(b_sink))} :
       \E header_size \in {Len(HeaderSection_write(b_header))} :
       \E digests \in {[md5 |-> Md5(rest), sha1 |-> Sha1Hex(SubSeq(rest, 1, header_size))]} :
       \E defects \in SignatureDefects :
           b_sink' = SubSeq(b_sink, 1, b_archive.signature_start)
                         \o IndexTable_write(
                                ForeignSignature(rest, digests.md5, digests.sha1,
                                                 Len(b_archive.encoder.input), defects),
                                TRUE)
                         \o rest
    /\ p_damage' = Append(p_damage, "signature")
    /\ UNCHANGED <<b_phase, b_type, b_header, b_added, b_pos, b_archive, b_written,
                   b_bodies, b_runs, b_result>>
    /\ UNCHANGED <<p_result, p_package, p_section, p_next, p_read, p_bodies, p_validate,
                   p_pos, p_calls>>
    /\ UNCHANGED <<leadVars, tableVars, headerVars, convertVars,
                   filesVars, sizeVars>>

\* Package::read on the file a closed write pipeline left
PackageRead ==
    /\ b_phase \in {"Finished", "Dropped", "NotBuilt"}
    /\ p_result = NoResult
    /\ \E read \in {Package_read(b_sink)} :
           /\ p_result' = read.result
           /\ p_package' = read.package
           /\ p_pos' = read.pos
    /\ UNCHANGED <<p_damage, p_section, p_next, p_read, p_bodies, p_validate, p_calls>>
    /\ UNCHANGED <<leadVars, tableVars, headerVars, convertVars, builderVars,
                   filesVars, sizeVars>>

\* how many times validate and read_archive were called on the Package
CallsMade ==
    Cardinality({k \in 1..Len(p_calls) : p_calls[k] \in {"validate", "read_archive"}})

\* Package::validate, while no ArchiveSection borrows the package
Validate ==
    /\ p_result.ok
    /\ p_next = NoResult
    /\ p_validate.result = NoResult
    /\ CallsMade < MaxCalls
    /\ \E validated \in {Package_validate(p_package, b_sink, p_pos)} :
           /\ p_validate' = [result |-> validated.result, log |-> validated.log]
           /\ p_pos' = validated.pos
    /\ p_calls' = Append(p_calls, "validate")
    /\ UNCHANGED <<p_damage, p_result, p_package, p_section, p_next, p_read, p_bodies>>
    /\ UNCHANGED <<leadVars, tableVars, headerVars, convertVars, builderVars,
                   filesVars, sizeVars>>

\* a FileReader that has not been read from
Unread == <<-1>>

\* Package::read_archive
ReadArchive ==
    /\ p_result.ok
    /\ p_next = NoResult
    /\ CallsMade < MaxCalls
    /\ \E archive \in {Package_read_archive(p_package, b_sink, p_pos)} :
           /\ p_next' = archive.result
           /\ p_section' = archive.section
           /\ p_pos' = archive.pos
    /\ p_calls' = Append(p_calls, "read_archive")
    /\ UNCHANGED <<p_damage, p_result, p_package, p_read, p_bodies, p_validate>>
    /\ UNCHANGED <<leadVars, tableVars, headerVars, convertVars, builderVars,
                   filesVars, sizeVars>>

\* ArchiveSection::next_file
ArchiveNextFile ==
    /\ p_section.decoder.codec # "none"
    /\ ~p_section.file.some
    /\ \E next \in {ArchiveSection_next_file(p_section)} :
           /\ p_next' = IF ~next.result.ok THEN next.result
                        ELSE IF next.some THEN Some ELSE None
           /\ p_section' = next.section
           /\ p_read' = IF next.some THEN Unread ELSE p_read
    /\ p_pos' = IF p_section.done THEN p_pos ELSE DecoderFill(b_sink, p_pos)
    /\ UNCHANGED <<p_damage, p_result, p_package, p_bodies, p_validate, p_calls>>
    /\ UNCHANGED <<leadVars, tableVars, headerVars, convertVars, builderVars,
                   filesVars, sizeVars>>

\* FileReader::read, to the end of the file
FileRead ==
    /\ p_section.file.some
    /\ p_read = Unread
    /\ \E read \in {FileReader_read_to_end(p_section)} :
           /\ p_read' = read.bytes
           /\ p_section' = read.section
    /\ p_pos' = DecoderFill(b_sink, p_pos)
    /\ UNCHANGED <<p_damage, p_result, p_package, p_next, p_bodies, p_validate, p_calls>>
    /\ UNCHANGED <<leadVars, tableVars, headerVars, convertVars, builderVars,
                   filesVars, sizeVars>>

\* Drop for FileReader
FileReaderDrop ==
    /\ p_section.file.some
    /\ p_section' = FileReader_drop(p_section)
    /\ p_bodies' = Append(p_bodies, p_read)
    /\ p_read' = <<>>
    /\ p_pos' = DecoderFill(b_sink, p_pos)
    /\ UNCHANGED <<p_damage, p_result, p_package, p_next, p_validate, p_calls>>
    /\ UNCHANGED <<leadVars, tableVars, headerVars, convertVars, builderVars,
                   filesVars, sizeVars>>

Next ==
    \/ SetPackageName \/ SetVersionString \/ SetReleaseString
    \/ SetPayloadCompression \/ AddFile \/ Build
    \/ NextFile \/ FileWrite \/ FileWriterDrop \/ Finish \/ DropArchiveBuilder
    \/ PackageRead \/ Validate
    \/ ReadArchive \/ ArchiveNextFile \/ FileRead \/ FileReaderDrop

Spec == Init /\ [][Next]_vars

NextDamaged ==
    \/ SetPackageName \/ SetVersionString \/ SetReleaseString
    \/ AddFile \/ Build \/ NextFile \/ FileWrite \/ FileWriterDrop \/ Finish
    \/ DamageHeaderByte \/ ReplaceSignature
    \/ PackageRead \/ Validate

\* the damaged files are Binary packages: the package type is in the lead,
\* which no check of validate reads
InitDamaged == Init /\ b_type = "Binary"

SpecDamaged == InitDamaged /\ [][NextDamaged]_vars

-----------------------------------------------------------------------------
(* A package is read more than once: validate is called again, the         *)
(* ArchiveSection goes out of scope before or after the last file, and     *)
(* read_archive is called again.                                           *)

\* Package::validate on a Package it was called on before
ValidateAgain ==
    /\ p_result.ok
    /\ p_next = NoResult
    /\ p_validate.result # NoResult
    /\ CallsMade < MaxCalls
    /\ \E validated \in {Package_validate(p_package, b_sink, p_pos)} :
           /\ p_validate' = [result |-> validated.result, log |-> validated.log]
           /\ p_pos' = validated.pos
    /\ p_calls' = Append(p_calls, "validate")
    /\ UNCHANGED <<p_damage, p_result, p_package, p_section, p_next, p_read, p_bodies>>
    /\ UNCHANGED <<leadVars, tableVars, headerVars, convertVars, builderVars,
                   filesVars, sizeVars>>

\* the ArchiveSection goes out of scope, and with it the FileReader if one
\* is live: "complete" when next_file had returned None, "partial" when not
DropArchiveSection ==
    /\ p_next # NoResult
    /\ p_section' = NoArchiveSection
    /\ p_next' = NoResult
    /\ p_read' = <<>>
    /\ p_bodies' = <<>>
    /\ p_pos' = IF p_section.file.some THEN DecoderFill(b_sink, p_pos) ELSE p_pos
    /\ p_calls' = Append(p_calls, IF p_section.done THEN "complete" ELSE "partial")
    /\ UNCHANGED <<p_damage, p_result, p_package, p_validate>>
    /\ UNCHANGED <<leadVars, tableVars, headerVars, convertVars, builderVars,
                   filesVars, sizeVars>>

NextReopen ==
    \/ SetPackageName \/ SetVersionString \/ SetReleaseString
    \/ SetPayloadCompression \/ AddFile \/ Build \/ NextFile \/ FileWrite \/ FileWriterDrop \/ Finish
    \/ PackageRead \/ Validate \/ ValidateAgain
    \/ ReadArchive \/ ArchiveNextFile \/ FileRead \/ FileReaderDrop
    \/ DropArchiveSection

SpecReopen == InitDamaged /\ [][NextReopen]_vars

\* the strings a value holds (none for the variants that hold no string)
StringsOf(value) ==
    CASE value.t = "String" -> {value.v}
      [] value.t \in {"StringArray", "I18nString"} -> {value.v[i] : i \in 1..Len(value.v)}
      [] OTHER -> {}

\* no string of the table contains a NUL byte
NoNulInStrings(table) ==
    \A tag \in DOMAIN table : \A str \in StringsOf(table[tag]) :
        \A i \in 1..Len(str) : str[i] # 0

(* C3 (as stated): for every valid IndexTable t and both pad settings,     *)
(* IndexTable::read(IndexTable::write(t, pad), pad) yields a table with    *)
(* the same tags and equal values.                                         *)
C3_RoundTripAnyTable ==
    t_result # NoResult => (t_result.ok /\ t_result.table = t_table)

(* C3 (amended): for every IndexTable t none of whose strings contains a   *)
(* NUL byte, and both pad settings, reading back the written table yields  *)
(* a table with the same tags and equal values.                            *)
C3_RoundTrip ==
    (t_result # NoResult /\ NoNulInStrings(t_table))
        => (t_result.ok /\ t_result.table = t_table)

\* a padded table of two tags, an Int64 array stored after a 3-byte Char
\* array, was written and read back equal
C3_Witness ==
    /\ t_result.ok /\ t_pad /\ t_result.table = t_table
    /\ DOMAIN t_table = {-3, 7}
    /\ t_table[-3] = Value("Char", <<1, 2, 3>>)
    /\ t_table[7] = Value("Int64", <<9>>)

-----------------------------------------------------------------------------
(* C4 (as stated): for any package type and any name of at most 65 bytes,  *)
(* LeadSection::read(LeadSection::write(type, name)) succeeds and restores *)
(* the package type and the name exactly.                                  *)
C4_RoundTripAnyName ==
    (l_result # NoResult /\ l_bytes # <<>> /\ l_tampers = 0 /\ Len(l_name) <= 65)
        => (l_result.ok /\ l_result.package_type = l_type /\ l_result.name = l_name)

(* C4 (amended): for any package type and any name of at most 65 bytes     *)
(* whose last byte is not NUL, reading back the written lead succeeds and  *)
(* restores the package type and the name exactly.                         *)
C4_RoundTrip ==
    (/\ l_result # NoResult /\ l_bytes # <<>> /\ l_tampers = 0
     /\ Len(l_name) <= 65
     /\ (l_name = <<>> \/ l_name[Len(l_name)] # 0))
        => (l_result.ok /\ l_result.package_type = l_type /\ l_result.name = l_name)

\* a 65-byte name of a Source package was written and read back
C4_Witness ==
    /\ l_result.ok /\ l_tampers = 0 /\ Len(l_name) = 65 /\ l_type = "Source"
    /\ l_result.name = l_name

(* C10: LeadSection::read fails with InvalidData on a wrong magic, then on *)
(* a version other than 3.0, then on a type code other than 0 or 1, then   *)
(* on an OS code other than 1, then on a signature type other than 5, in   *)
(* that order; the arch field and the 16 reserved bytes never make it      *)
(* fail; on success exactly 96 bytes are consumed.                         *)
C10_LeadReadErrors ==
    (l_result # NoResult /\ Len(l_bytes) >= 96) =>
        IF SubSeq(l_bytes, 1, 4) # <<237, 171, 238, 219>>
        THEN l_result = InvalidData("Not an RPM package (invalid magic number)")
        ELSE IF <<l_bytes[5], l_bytes[6]>> # <<3, 0>>
        THEN l_result.kind = "InvalidData" /\ l_result.msg = "Can't read RPM format version"
        ELSE IF <<l_bytes[7], l_bytes[8]>> \notin {<<0, 0>>, <<0, 1>>}
        THEN l_result.kind = "InvalidData" /\ l_result.msg = "Invalid package type"
        ELSE IF <<l_bytes[77], l_bytes[78]>> # <<0, 1>>
        THEN l_result.kind = "InvalidData" /\ l_result.msg = "Invalid RPM OS number"
        ELSE IF <<l_bytes[79], l_bytes[80]>> # <<0, 5>>
        THEN l_result.kind = "InvalidData" /\ l_result.msg = "Invalid RPM signature type"
        ELSE l_result.ok /\ l_result.pos = 96

\* a lead whose type code and OS code are both wrong was rejected for its type
C10_Witness ==
    /\ l_result.msg = "Invalid package type"
    /\ <<l_bytes[77], l_bytes[78]>> # <<0, 1>>

\* a lead with a changed arch field and a changed reserved byte was accepted,
\* on a stream that goes on after the lead
C10_WitnessAccepted ==
    /\ l_result.ok /\ l_tampers = 2 /\ Len(l_bytes) > 96
    /\ l_bytes[9] # 0 /\ l_bytes[81] # 0

-----------------------------------------------------------------------------
(* Packages the Builder produced, read back.                               *)

\* the files were all written and finish returned the writer
Produced == Sealed /\ Len(b_bodies) = Len(b_added)

\* what the encoder was fed for the files written so far and the trailer
FramesOf(file_infos, bodies) ==
    Flatten([i \in 1..Len(bodies) |->
                FrameHeader(file_infos[i]) \o bodies[i] \o NewcPad(Len(bodies[i]))])
        \o NewcTrailer

\* the sum of the sizes of the first n files
RECURSIVE SumSizes(_, _)
SumSizes(file_infos, n) ==
    IF n = 0 THEN 0 ELSE SumSizes(file_infos, n - 1) + FileInfo_size(file_infos[n])

(* C1 (as stated): for every package the Builder produced (any type, any   *)
(* name, version and release, a supported compressor at a level of 1 to 9, *)
(* any files added, build, next_file and write for each file, finish),     *)
(* Package::read of the bytes succeeds and validate() on it succeeds.      *)
C1_ReadAndValidateSucceed ==
    (Produced /\ p_damage = <<>>) =>
        /\ (p_result # NoResult => p_result.ok)
        /\ (p_validate.result # NoResult => p_validate.result.ok)

(* C2: for a package the Builder produced from files added in some order,  *)
(* header().files() lists the files in that order, the i-th reader that    *)
(* ArchiveSection::next_file returns is for the i-th file and yields the   *)
(* bytes written through the i-th FileWriter, next_file fails for none of  *)
(* them, and it returns None after the last file and not before.           *)
C2_FilesInOrder ==
    (Produced /\ p_result # NoResult) =>
        /\ p_result.ok
        /\ HeaderSection_files(p_package.header) = b_added
        /\ p_next # NoResult => p_next.ok
        /\ Len(p_bodies) + (IF p_section.file.some THEN 1 ELSE 0) <= Len(b_added)
        /\ \A i \in 1..Len(p_bodies) :
               p_bodies[i] = Unread \/ p_bodies[i] = b_bodies[i]
        /\ p_section.file.some =>
               /\ p_section.file.name = b_added[Len(p_bodies) + 1].name
               /\ p_section.file.size = Len(b_bodies[Len(p_bodies) + 1])
               /\ p_read = Unread \/ p_read = b_bodies[Len(p_bodies) + 1]
        /\ p_next = None => (Len(p_bodies) = Len(b_added) /\ ~p_section.file.some)

\* two files of different names and bodies were written, and read back in
\* full, up to the None of next_file
C2_Witness ==
    /\ Produced /\ Len(b_added) = 2
    /\ b_added[1].name # b_added[2].name /\ b_bodies[1] # b_bodies[2]
    /\ p_bodies = b_bodies /\ p_next = None

(* C5: the placeholder signature that build writes and the signature that  *)
(* do_finish writes have the same tags, types and counts and the same      *)
(* encoded length, so once do_finish has run the bytes before the          *)
(* signature are the lead, the bytes from header_start on are the header   *)
(* and the archive as they were written, and the sink is as long as the    *)
(* lead, the placeholder, the header and the archive together.             *)
C5_SignatureSameLength ==
    (b_phase \in {"Finished", "Dropped"}
        /\ b_archive.signature # SignatureSection_placeholder) =>
        /\ DOMAIN b_archive.signature = DOMAIN SignatureSection_placeholder
        /\ \A tag \in DOMAIN b_archive.signature :
               /\ b_archive.signature[tag].t = SignatureSection_placeholder[tag].t
               /\ IndexValue_count(b_archive.signature[tag])
                      = IndexValue_count(SignatureSection_placeholder[tag])
        /\ Len(SignatureSection_write(b_archive.signature))
               = Len(SignatureSection_write(SignatureSection_placeholder))
        /\ b_archive.header_start
               = b_archive.signature_start
                     + Len(SignatureSection_write(b_archive.signature))
        /\ SubSeq(b_sink, 1, b_archive.signature_start)
               = LeadSection_write(b_type,
                                   package_name(b_header) \o <<45>>
                                       \o version_string(b_header) \o <<45>>
                                       \o release_string(b_header))
        /\ SubSeq(b_sink, b_archive.header_start + 1, Len(b_sink))
               = HeaderSection_write(b_header)
                     \o Encode(b_archive.encoder.codec, b_archive.encoder.input)

\* finish wrote a signature that differs from the placeholder over it
C5_Witness ==
    /\ Sealed /\ Len(b_bodies) = 2
    /\ Take(b_sink, b_archive.signature_start,
            b_archive.header_start - b_archive.signature_start)
           = SignatureSection_write(b_archive.signature)
    /\ SignatureSection_write(b_archive.signature)
           # SignatureSection_write(SignatureSection_placeholder)

(* C6: after a successful finish the signature in the sink has SIZE equal  *)
(* to the end of the sink minus header_start, MD5 equal to the digest of   *)
(* the bytes from header_start to the end of the sink, and PAYLOAD_SIZE    *)
(* equal to the number of bytes fed to the encoder, the frames of the      *)
(* files and the trailer; the sink is positioned at its end.               *)
C6_SignatureFields ==
    Sealed =>
        LET stored == SignatureSection_read(b_sink, b_archive.signature_start) IN
        /\ stored.ok
        /\ stored.pos = b_archive.header_start
        /\ header_and_archive_size(stored.table) = Len(b_sink) - b_archive.header_start
        /\ header_and_archive_md5(stored.table)
               = Md5(SubSeq(b_sink, b_archive.header_start + 1, Len(b_sink)))
        /\ SIG_TAG_PAYLOAD_SIZE \in DOMAIN stored.table
        /\ uncompressed_archive_size(stored.table)
               = Len(FramesOf(b_added, b_bodies))
        /\ b_pos = Len(b_sink)

\* finish sealed a package of two files, one of them with three bytes
C6_Witness ==
    /\ Sealed /\ p_damage = <<>> /\ Len(b_bodies) = 2 /\ Len(b_bodies[2]) = 3
    /\ header_and_archive_size(b_archive.signature) > 0

(* C7: finalization of an ArchiveBuilder runs exactly once on every path:  *)
(* finish runs it and the drop that follows does not run it again, the     *)
(* drop of a builder that was not finished runs it once and gives no       *)
(* error, and a finalization that fails part-way is not run again.         *)
C7_FinalizedOnce ==
    /\ b_phase \in {"Finished", "Dropped"} =>
           (b_runs = 1 /\ ~b_archive.encoder.some)
    /\ b_phase \in {"PackageBuilder", "NotBuilt", "ArchiveBuilder", "FileWriter"} =>
           b_runs = 0
    /\ b_phase = "Dropped" => b_result.ok

\* finish failed while the signature was written over the placeholder
C7_Witness ==
    /\ b_phase = "Finished" /\ b_result = WriterError /\ b_runs = 1
    /\ b_archive.signature # SignatureSection_placeholder

\* the drop of an unfinished builder failed and gave no error
C7_WitnessDropped ==
    /\ b_phase = "Dropped" /\ b_runs = 1 /\ b_result.ok
    /\ Len(b_sink) = b_archive.header_start + Len(HeaderSection_write(b_header))

-----------------------------------------------------------------------------
(* Package::validate on packages that were changed after they were built.  *)

ERR_SIZE ==
    InvalidData("Actual package header/archive size does not match expected size from package signature")

ERR_MD5 ==
    InvalidData("Actual package header/archive MD5 digest does not match expected digest from package signature")

ERR_SHA1 ==
    InvalidData("Actual package header SHA1 digest does not match expected digest from package signature")

ERR_FILE_SIZE ==
    InvalidData("Actual file size does not match expected size from package metadata")

ERR_FILE_MD5 ==
    InvalidData("Actual file MD5 digest does not match expected digest from package metadata")

ERR_INSTALL_SIZE ==
    InvalidData("Actual total install size does not match expected size from package header")

ERR_PAYLOAD_SIZE ==
    InvalidData("Actual uncompressed archive size does not match expected size from package signature")

\* the place of a check in the order of validate
Rank(check) ==
    CASE check = "a" -> 1 [] check = "b" -> 2 [] check = "c" -> 3
      [] check = "d" -> 4 [] check = "e" -> 5 [] check = "f" -> 6

\* what the checks (a), (b), (c) compare, taken from the file itself
SizeMismatch ==
    Len(b_sink) - p_package.header_start # p_package.signature[SIG_TAG_SIZE].v[1]

Md5Mismatch ==
    Md5(SubSeq(b_sink, p_package.header_start + 1, Len(b_sink)))
        # p_package.signature[SIG_TAG_MD5].v

Sha1Mismatch ==
    /\ SIG_TAG_SHA1 \in DOMAIN p_package.signature
    /\ Sha1Hex(SubSeq(b_sink, p_package.header_start + 1, p_package.archive_start))
           # p_package.signature[SIG_TAG_SHA1].v

(* C8: validate() makes its checks in the order (a) header and archive     *)
(* size, (b) header and archive MD5, (c) header SHA-1 if present, (d) size *)
(* and MD5 of each file, (e) total of the file sizes, (f) uncompressed     *)
(* archive size if PAYLOAD_SIZE is present; it returns the InvalidData     *)
(* error of the first check that finds a mismatch and makes no check after *)
(* it, and it returns Ok only when no check finds one.                     *)
C8_ChecksInOrder ==
    p_validate.result # NoResult =>
        LET log == p_validate.log
            result == p_validate.result
            last == log[Len(log)]
            made == {log[i] : i \in 1..Len(log)}
            written == SumSizes(b_added, b_archive.next_file_index)
        IN
        /\ log # <<>> /\ log[1] = "a"
        /\ \A i \in 1..(Len(log) - 1) :
               \/ Rank(log[i]) < Rank(log[i + 1])
               \/ (log[i] = "d" /\ log[i + 1] = "d")
        /\ SizeMismatch => (result = ERR_SIZE /\ log = <<"a">>)
        /\ (~SizeMismatch /\ Md5Mismatch) => (result = ERR_MD5 /\ log = <<"a", "b">>)
        /\ (~SizeMismatch /\ ~Md5Mismatch /\ Sha1Mismatch)
               => (result = ERR_SHA1 /\ log = <<"a", "b", "c">>)
        /\ (~SizeMismatch /\ ~Md5Mismatch) =>
               /\ "b" \in made
               /\ ("c" \in made) <=> (SIG_TAG_SHA1 \in DOMAIN p_package.signature)
        /\ result = ERR_SIZE => (SizeMismatch /\ last = "a")
        /\ result = ERR_MD5 => (Md5Mismatch /\ last = "b")
        /\ result = ERR_SHA1 => (Sha1Mismatch /\ last = "c")
        /\ result \in {ERR_FILE_SIZE, ERR_FILE_MD5} => last = "d"
        /\ result = ERR_INSTALL_SIZE =>
               (last = "e" /\ written # total_install_size(p_package.header))
        /\ result = ERR_PAYLOAD_SIZE =>
               /\ last = "f" /\ "e" \in made
               /\ p_package.signature[SIG_TAG_PAYLOAD_SIZE].v[1]
                      # Len(b_archive.encoder.input)
        /\ "f" \in made => SIG_TAG_PAYLOAD_SIZE \in DOMAIN p_package.signature
        /\ result.ok =>
               /\ ~SizeMismatch /\ ~Md5Mismatch /\ ~Sha1Mismatch
               /\ "e" \in made
               /\ written = total_install_size(p_package.header)
               /\ IF SIG_TAG_PAYLOAD_SIZE \in DOMAIN p_package.signature
                  THEN /\ last = "f"
                       /\ p_package.signature[SIG_TAG_PAYLOAD_SIZE].v[1]
                              = Len(b_archive.encoder.input)
                  ELSE last = "e"
        /\ (~result.ok /\ result \notin {ERR_SIZE, ERR_MD5, ERR_SHA1, ERR_FILE_SIZE,
                                         ERR_FILE_MD5, ERR_INSTALL_SIZE,
                                         ERR_PAYLOAD_SIZE})
               => (~SizeMismatch /\ ~Md5Mismatch /\ ~Sha1Mismatch
                       /\ "e" \notin made /\ "f" \notin made)

\* a package of one file whose header SIZE was changed to the size of the
\* file and whose signature was computed anew passes the six checks
C8_Witness ==
    /\ p_validate.result.ok
    /\ p_validate.log = <<"a", "b", "c", "d", "e", "f">>
    /\ p_damage = <<"byte", "signature">>

\* the SHA-1 check failed after the size and MD5 checks passed
C8_WitnessSha1 ==
    /\ p_validate.result = ERR_SHA1
    /\ p_validate.log = <<"a", "b", "c">>

(* C9: if one byte of the Header section of a package the Builder produced *)
(* is changed, the length of the file staying the same and Package::read   *)
(* still accepting the package, validate() fails with the header/archive   *)
(* MD5 mismatch error.                                                     *)
C9_DamagedByteFailsMd5 ==
    (p_damage = <<"byte">> /\ p_result.ok /\ p_validate.result # NoResult)
        => p_validate.result = ERR_MD5

\* a byte of the header of a complete package of one file was changed, the
\* package was read, and validate failed on the MD5 digest
C9_Witness ==
    /\ p_damage = <<"byte">> /\ p_result.ok /\ Len(b_bodies) = 1 /\ Len(b_added) = 1
    /\ p_validate.result = ERR_MD5
    /\ p_validate.log = <<"a", "b">>


-----------------------------------------------------------------------------
(* Claim C11 *)

\* the message IndexTable::read gives for each defect
DefectMessage ==
    [magic |-> "Invalid magic number for index table",
     reserved |-> "Invalid reserved field for index table",
     tag |-> "Repeated tag in index table",
     type |-> "Invalid type number in index entry",
     count |-> "Invalid count in index entry for type String",
     utf8 |-> "Invalid UTF-8 in header string entry"]

\* C11: IndexTable::read on a stream with a wrong magic number, a non-zero
\* reserved word, a repeated tag, a type code outside 0..9, a String entry
\* whose count is not 1, or a string that is not UTF-8 fails with
\* InvalidData (with the message of that defect) and returns no table.
C11_DefectsAreInvalidData ==
    (t_result # NoResult /\ t_defect # "none")
        => /\ ~t_result.ok
           /\ t_result.kind = "InvalidData"
           /\ t_result.msg = DefectMessage[t_defect]
           /\ "table" \notin DOMAIN t_result

\* a String entry whose count was made 0 or 2 has been rejected
C11_Witness == t_defect = "count" /\ t_result.kind = "InvalidData"

C11_WitnessMagic == t_defect = "magic" /\ t_result.kind = "InvalidData"
C11_WitnessReserved == t_defect = "reserved" /\ t_result.kind = "InvalidData"
C11_WitnessTag == t_defect = "tag" /\ t_result.kind = "InvalidData"
C11_WitnessType == t_defect = "type" /\ t_result.kind = "InvalidData"
C11_WitnessUtf8 == t_defect = "utf8" /\ t_result.kind = "InvalidData"


-----------------------------------------------------------------------------
(* Claim C12 *)

\* the count of a value as the schema means it: 1 for Null and String, the
\* number of elements otherwise
ElementCount(value) == IF value.t \in {"Null", "String"} THEN 1 ELSE Len(value.v)

\* the outcome the schema rules give for entry on table: "Ok", or the
\* first rule that is broken
SchemaVerdict(table, entry) ==
    IF entry.tag \notin DOMAIN table
    THEN IF entry.required THEN "Missing entry" ELSE "Ok"
    ELSE IF table[entry.tag].t # entry.itype THEN "Incorrect type for entry"
    ELSE IF entry.count # -1 /\ ElementCount(table[entry.tag]) # entry.count
    THEN "Incorrect number of values for entry"
    ELSE "Ok"

\* C12: validating one schema entry succeeds exactly when the tag is present
\* with the schema's type and (if a count is fixed) that count, or is absent
\* and not required; otherwise the error is InvalidData: Missing for a
\* required absent tag, Incorrect type for a type mismatch (also when the
\* count differs too), Incorrect number for a count mismatch alone.
C12_SchemaValidation ==
    t_validated # NotValidated
        => LET entry == t_validated.entry
               result == t_validated.result
               present == entry.tag \in DOMAIN t_table
               typed == present /\ t_table[entry.tag].t = entry.itype
               counted == typed /\ (entry.count = -1
                                      \/ ElementCount(t_table[entry.tag]) = entry.count)
           IN  /\ result.ok <=> (counted \/ (~present /\ ~entry.required))
               /\ ~result.ok => result.kind = "InvalidData"
               /\ (~present /\ entry.required) => result.msg = "Missing entry"
               /\ (present /\ ~typed) => result.msg = "Incorrect type for entry"
               /\ (typed /\ ~counted) => result.msg = "Incorrect number of values for entry"
               /\ (result.ok \/ result.msg = SchemaVerdict(t_table, entry))

\* an entry whose type and count both differ was rejected for its type
C12_Witness ==
    /\ t_validated # NotValidated
    /\ t_validated.entry.tag \in DOMAIN t_table
    /\ t_table[t_validated.entry.tag].t # t_validated.entry.itype
    /\ t_validated.entry.count # -1
    /\ ElementCount(t_table[t_validated.entry.tag]) # t_validated.entry.count
    /\ t_validated.result.msg = "Incorrect type for entry"

C12_WitnessCount ==
    /\ t_validated # NotValidated
    /\ t_validated.result.msg = "Incorrect number of values for entry"

C12_WitnessMissing ==
    /\ t_validated # NotValidated
    /\ t_validated.result.msg = "Missing entry"

C12_WitnessOk ==
    /\ t_validated # NotValidated
    /\ t_validated.entry.tag \in DOMAIN t_table
    /\ t_validated.entry.count # -1
    /\ t_validated.result.ok


-----------------------------------------------------------------------------
(* Claim C13 *)

\* the table requires "rpmlib(CompressedFileNames)"
RequiresCompressed(table) ==
    \E k \in 1..Len(table[TAG.REQUIRENAME].v) :
        table[TAG.REQUIRENAME].v[k] =
            <<114,112,109,108,105,98,40,67,111,109,112,114,101,115,115,101,100,
              70,105,108,101,78,97,109,101,115,41>>

\* the three REQUIRE arrays of the table have the same length, so that
\* HeaderSection::read gets as far as the file names
RequireCountsMatch(table) ==
    /\ Len(table[TAG.REQUIREFLAGS].v) = Len(table[TAG.REQUIRENAME].v)
    /\ Len(table[TAG.REQUIREVERSION].v) = Len(table[TAG.REQUIRENAME].v)

\* C13: HeaderSection::read uses the Compressed naming scheme exactly when
\* REQUIRENAME contains "rpmlib(CompressedFileNames)" and the Legacy scheme
\* otherwise; in Compressed mode a table without DIRNAMES is rejected with
\* the Missing DIRNAMES error, then BASENAMES and DIRINDEXES are required in
\* that order; in Legacy mode a table without OLDFILENAMES is rejected.
C13_NamingScheme ==
    h_result # NoResult
        => LET compressed == RequiresCompressed(h_table)
               has(tag) == tag \in DOMAIN h_table
           IN  /\ h_result.ok
                    => h_result.header.use_old_filenames = ~compressed
               /\ (RequireCountsMatch(h_table) /\ compressed /\ ~has(TAG.DIRNAMES))
                    => /\ h_result.kind = "InvalidData"
                       /\ h_result.msg = "Missing DIRNAMES entry in Header section"
               /\ (RequireCountsMatch(h_table) /\ compressed /\ has(TAG.DIRNAMES)
                     /\ ~has(TAG.BASENAMES))
                    => /\ h_result.kind = "InvalidData"
                       /\ h_result.msg = "Missing BASENAMES entry in Header section"
               /\ (RequireCountsMatch(h_table) /\ compressed /\ has(TAG.DIRNAMES)
                     /\ has(TAG.BASENAMES) /\ ~has(TAG.DIRINDEXES))
                    => /\ h_result.kind = "InvalidData"
                       /\ h_result.msg = "Missing DIRINDEXES entry in Header section"
               /\ (RequireCountsMatch(h_table) /\ ~compressed /\ ~has(TAG.OLDFILENAMES))
                    => /\ h_result.kind = "InvalidData"
                       /\ h_result.msg = "Missing OLDFILENAMES entry in Header section"
               /\ (compressed /\ h_result.ok)
                    => has(TAG.DIRNAMES) /\ has(TAG.BASENAMES) /\ has(TAG.DIRINDEXES)
               /\ (~compressed /\ h_result.ok) => has(TAG.OLDFILENAMES)

\* a table that requires compressed file names and has none of the three
\* entries was rejected for DIRNAMES
C13_Witness ==
    /\ RequiresCompressed(h_table)
    /\ TAG.DIRNAMES \notin DOMAIN h_table
    /\ TAG.DIRNAMES = 1118
    /\ h_result.msg = "Missing DIRNAMES entry in Header section"

\* a table in the Compressed scheme was accepted
C13_WitnessCompressed ==
    /\ h_result.ok
    /\ ~h_result.header.use_old_filenames

\* a table in the Legacy scheme without OLDFILENAMES was rejected
C13_WitnessLegacy ==
    /\ ~RequiresCompressed(h_table)
    /\ h_result.msg = "Missing OLDFILENAMES entry in Header section"

C13_WitnessBasenames == h_result.msg = "Missing BASENAMES entry in Header section"
C13_WitnessDirindexes == h_result.msg = "Missing DIRINDEXES entry in Header section"


-----------------------------------------------------------------------------
(* Claim C14 *)

\* the dependency groups: the tags of the names, the flags and the versions
DependencyGroups ==
    { <<TAG.PROVIDENAME, TAG.PROVIDEFLAGS, TAG.PROVIDEVERSION>>,
      <<TAG.REQUIRENAME, TAG.REQUIREFLAGS, TAG.REQUIREVERSION>>,
      <<TAG.CONFLICTNAME, TAG.CONFLICTFLAGS, TAG.CONFLICTVERSION>>,
      <<TAG.OBSOLETENAME, TAG.OBSOLETEFLAGS, TAG.OBSOLETEVERSION>> }

\* the three arrays of the group have the same length in the table; a group
\* of which an array is absent is not compared
GroupParallel(table, group) ==
    (\A k \in 1..3 : group[k] \in DOMAIN table)
        => /\ Len(table[group[1]].v) = Len(table[group[2]].v)
           /\ Len(table[group[1]].v) = Len(table[group[3]].v)

\* C14: in every header HeaderSection::read accepts, the three arrays of
\* each dependency group (PROVIDE, REQUIRE, and CONFLICT and OBSOLETE when
\* present) have the same length.
C14_DependencyGroupsParallel ==
    (h_result # NoResult /\ h_result.ok)
        => \A group \in DependencyGroups : GroupParallel(h_result.header.table, group)

\* C14, the part the code enforces: in every accepted header the three
\* REQUIRE arrays have the same length.
C14_RequireGroupParallel ==
    (h_result # NoResult /\ h_result.ok)
        => GroupParallel(h_result.header.table,
                         <<TAG.REQUIRENAME, TAG.REQUIREFLAGS, TAG.REQUIREVERSION>>)

\* a header with one PROVIDENAME and no PROVIDEFLAGS was accepted
C14_AcceptedUnequalProvide ==
    /\ h_result.ok
    /\ Len(h_result.header.table[TAG.PROVIDENAME].v) = 1
    /\ Len(h_result.header.table[TAG.PROVIDEFLAGS].v) = 0

\* a header whose REQUIRE arrays differ in length was rejected
C14_RejectedUnequalRequire ==
    /\ h_result # NoResult
    /\ ~RequireCountsMatch(h_table)
    /\ ~h_result.ok


-----------------------------------------------------------------------------
(* Claim C15 *)

\* the time is 2^32 - 1 seconds or more after the epoch
AtOrBeyondU32Max(timestamp) ==
    /\ ~timestamp.before
    /\ \/ timestamp.secs[1] > 0 \/ timestamp.secs[2] > 0
       \/ (timestamp.secs[3] = 65535 /\ timestamp.secs[4] = 65535)

\* the time is earlier than 1970-01-01 00:00:00 UTC
BeforeEpoch(timestamp) ==
    /\ timestamp.before
    /\ (timestamp.nanos > 0 \/ \E k \in 1..4 : timestamp.secs[k] > 0)

\* C15: system_time_to_u32(u32_to_system_time(x)) = x for every u32 x; a
\* time 2^32 - 1 seconds or more after the epoch converts to 0xFFFFFFFF; a
\* time before 1970 converts to 0.
C15_TimestampConversion ==
    c_back # <<>>
        => /\ c_seconds # <<>> => c_back = c_seconds
           /\ AtOrBeyondU32Max(c_time) => c_back = <<65535, 65535>>
           /\ BeforeEpoch(c_time) => c_back = <<0, 0>>
           /\ (~AtOrBeyondU32Max(c_time) /\ ~BeforeEpoch(c_time))
                => c_back = <<c_time.secs[3], c_time.secs[4]>>

\* 1520908554 went to a SystemTime and came back
C15_Witness ==
    /\ c_seconds = <<23207, 14602>>
    /\ c_back = <<23207, 14602>>

\* 10,000,000,000 seconds after the epoch gave 0xFFFFFFFF
C15_WitnessClampedHigh ==
    /\ c_time = [before |-> FALSE, secs |-> <<0, 2, 21515, 58368>>, nanos |-> 0]
    /\ c_back = <<65535, 65535>>

\* 100,000,000 seconds before the epoch gave 0
C15_WitnessClampedLow ==
    /\ c_time = [before |-> TRUE, secs |-> <<0, 0, 1525, 57600>>, nanos |-> 0]
    /\ c_back = <<0, 0>>

\* 0xFFFFFFFF went to a SystemTime and came back
C15_WitnessMax ==
    /\ c_seconds = <<65535, 65535>>
    /\ c_back = <<65535, 65535>>


-----------------------------------------------------------------------------
(* Claim C16 *)

\* C16: for every IndexType T, from_number(T.number()) is Some(T) and
\* default_value(T).index_type() is T; from_number gives None for every
\* integer outside 0..9.
C16_IndexTypeRoundTrip ==
    /\ i_type \notin {"", "None"}
         => /\ i_default = i_type
            /\ i_from # "" => i_from = i_type
    /\ (i_from # "" /\ (i_number < 0 \/ i_number > 9)) => i_from = "None"

\* the number of I18nString was turned back into I18nString
C16_Witness ==
    /\ i_type = "I18nString"
    /\ i_default = "I18nString"
    /\ i_from = "I18nString"

\* 10 and -1 name no type
C16_WitnessTen == i_type = "None" /\ i_number = 10 /\ i_from = "None"
C16_WitnessMinusOne == i_type = "None" /\ i_number = -1 /\ i_from = "None"

\* every type has been through the round trip
C16_WitnessNull == i_type = "Null" /\ i_from = "Null" /\ i_number = 0


-----------------------------------------------------------------------------
(* Claim C17 *)

\* PAYLOADCOMPRESSOR of the header is "gzip", "bzip2" or "xz"
CompressorSupported(header) ==
    header.table[TAG.PAYLOADCOMPRESSOR].v
        \in {<<103,122,105,112>>, <<98,122,105,112,50>>, <<120,122>>}

\* PAYLOADFLAGS of the header is the decimal form of an integer in 1..9
LevelInRange(header) ==
    \E level \in 1..9 : header.table[TAG.PAYLOADFLAGS].v = <<48 + level>>

C17_WitnessCompressor ==
    /\ b_phase = "NotBuilt"
    /\ b_result.kind = "InvalidInput"
    /\ b_header.table[TAG.PAYLOADCOMPRESSOR].v = <<122,105,112>>

\* build refused xz at level 10
C17_WitnessLevelTen ==
    /\ b_phase = "NotBuilt"
    /\ b_result.kind = "InvalidInput"
    /\ b_header.table[TAG.PAYLOADFLAGS].v = <<49, 48>>

\* build gave an ArchiveBuilder for xz at level 1 and two files
C17_WitnessBuilt ==
    /\ b_phase = "ArchiveBuilder"
    /\ b_result.ok
    /\ b_archive.next_file_index = 0
    /\ b_archive.encoder.some
    /\ Len(b_archive.file_infos) = 2
    /\ b_header.table[TAG.PAYLOADCOMPRESSOR].v = <<120,122>>


-----------------------------------------------------------------------------
(* Claim C18 *)

\* the FileWriters handed out and not yet dropped
LiveFileWriters == b_archive.next_file_index - Len(b_bodies)

\* one step of the write pipeline seen from the ArchiveBuilder
ArchiveBuilderStep ==
    LET index == b_archive.next_file_index
        files == Len(b_archive.file_infos)
    IN  /\ (b_phase = "PackageBuilder" /\ b_phase' = "ArchiveBuilder")
             => b_archive'.next_file_index = 0
        /\ b_phase = "ArchiveBuilder"
             => \/ /\ b_phase' = "FileWriter"
                   /\ index < files
                   /\ b_result'.kind = "Some"
                   /\ b_archive'.next_file_index = index + 1
                   /\ b_archive'.file_infos = b_archive.file_infos
                   /\ b_archive'.encoder.input =
                          b_archive.encoder.input
                              \o NewcHeader(b_added[index + 1].name, b_added[index + 1].inode,
                                            b_added[index + 1].mode % 65536,
                                            b_added[index + 1].mtime,
                                            b_added[index + 1].size)
                \/ /\ b_phase' = "ArchiveBuilder"
                   /\ index = files
                   /\ b_result'.kind = "None"
                   /\ b_archive' = b_archive
                   /\ b_sink' = b_sink
                \/ /\ b_phase' \in {"Finished", "Dropped"}
                   /\ b_archive'.next_file_index = index
        /\ b_phase = "FileWriter"
             => /\ b_phase' \in {"FileWriter", "ArchiveBuilder"}
                /\ b_archive'.next_file_index = index
                /\ b_archive'.file_infos = b_archive.file_infos
                /\ b_archive'.encoder.some
                /\ b_runs' = b_runs
                /\ b_sink' = b_sink
        /\ b_phase = "Finished" => UNCHANGED builderVars
        /\ b_archive'.next_file_index <= Len(b_archive'.file_infos)

\* C18: next_file_index starts at 0, grows by exactly 1 with each next_file
\* that returns a writer and never exceeds the file count; the i-th writer
\* is for the i-th file of the header's file table; when all files were
\* handed out next_file returns None and emits nothing; at most one
\* FileWriter is live, and while one is live neither next_file nor finish
\* happens; Finished is terminal.
C18_ArchiveBuilderStates ==
    /\ [](LiveFileWriters = IF b_phase = "FileWriter" THEN 1 ELSE 0)
    /\ [][ArchiveBuilderStep]_vars

\* the second FileWriter is live after the first one was dropped
C18_Witness ==
    /\ b_phase = "FileWriter"
    /\ b_archive.next_file_index = 2
    /\ Len(b_bodies) = 1
    /\ b_archive.file_infos[2] = b_added[2]

\* next_file returned None after both files
C18_WitnessNone ==
    /\ b_phase = "ArchiveBuilder"
    /\ b_result.kind = "None"
    /\ b_archive.next_file_index = 2

\* finish returned with a file not handed out
C18_WitnessFinished ==
    /\ b_phase = "Finished"
    /\ b_archive.next_file_index < Len(b_archive.file_infos)


-----------------------------------------------------------------------------
(* Claim C19 *)

\* one step of the read pipeline seen from the ArchiveSection; the CPIO
\* entries of the stream are the frames of the files the ArchiveBuilder
\* handed out, and the FileReaders dropped so far are Len(p_bodies)
ArchiveSectionStep ==
    LET entries == b_archive.next_file_index
        given == Len(p_bodies)
        open == p_section.decoder.codec # "none" /\ ~p_section.file.some
    IN  /\ p_section.done => UNCHANGED <<p_section, p_next, p_read, p_bodies>>
        /\ (open /\ ~p_section.done)
             => IF p_next'.ok
                THEN \/ /\ p_next'.kind = "Some"
                        /\ p_section'.file.some
                        /\ ~p_section'.done
                        /\ given < entries
                        /\ p_section'.file.name = b_added[given + 1].name
                        /\ p_section'.file.size = b_added[given + 1].size
                     \/ /\ p_next'.kind = "None"
                        /\ p_section'.done
                        /\ ~p_section'.file.some
                        /\ given = entries
                ELSE ~p_section'.done /\ ~p_section'.file.some
        /\ p_section.file.some
             => /\ ~p_section'.done
                /\ p_next' = p_next
                /\ p_section'.file.some \/ Len(p_bodies') = given + 1

\* C19: next_file gives one reader per CPIO entry in stream order; when the
\* entry read is the trailer it sets done and returns None; from then on
\* every next_file returns None and reads nothing more from the decoder.
C19_ArchiveSectionStates ==
    /\ [](p_section.done
            => /\ ~p_section.file.some
               /\ ArchiveSection_next_file(p_section) =
                      [result |-> Ok, some |-> FALSE, section |-> p_section])
    /\ [][ArchiveSectionStep]_vars

\* both files were read and the trailer ended the iteration
C19_Witness ==
    /\ p_section.done
    /\ p_next.kind = "None"
    /\ Len(p_bodies) = 2
    /\ Len(p_bodies[2]) = 3

\* the second reader is live
C19_WitnessReading ==
    /\ p_section.file.some
    /\ Len(p_bodies) = 1
    /\ ~p_section.done

\* the trailer was the first entry
C19_WitnessEmpty ==
    /\ p_section.done
    /\ p_bodies = <<>>


-----------------------------------------------------------------------------
(* Claim C20 *)

\* the alignment the format asks of a value of the type
AlignmentOf(itype) ==
    IF itype = "Int16" THEN 2 ELSE IF itype = "Int32" THEN 4
    ELSE IF itype = "Int64" THEN 8 ELSE 1

\* the number of bytes a value takes in the data region
RECURSIVE SumLengths(_, _)
SumLengths(strings, n) ==
    IF n = 0 THEN 0 ELSE SumLengths(strings, n - 1) + Len(strings[n]) + 1

SizeOf(value) ==
    CASE value.t = "Null" -> 0
      [] value.t \in {"Char", "Int8", "Binary"} -> Len(value.v)
      [] value.t = "Int16" -> 2 * Len(value.v)
      [] value.t = "Int32" -> 4 * Len(value.v)
      [] value.t = "Int64" -> 8 * Len(value.v)
      [] value.t = "String" -> Len(value.v) + 1
      [] OTHER -> SumLengths(value.v, Len(value.v))

\* the i-th index entry of the written stream, its fields as numbers
WrittenEntry(i) ==
    [tag |-> ReadI32(Take(t_bytes, 16 * i, 4)),
     number |-> ReadI32(Take(t_bytes, 16 * i + 4, 4)),
     offset |-> ReadU32(Take(t_bytes, 16 * i + 8, 4)),
     count |-> ReadU32(Take(t_bytes, 16 * i + 12, 4))]

\* C20: in a table IndexTable::write emitted, the index entries are in
\* strictly ascending tag order; each offset is a multiple of the alignment
\* of the entry's type (2 for Int16, 4 for Int32, 8 for Int64, 1 otherwise)
\* and what lies between two values is fewer zero bytes than that alignment;
\* the values do not overlap and follow each other in tag order; each count
\* is the count of the value; the declared data length is the length of the
\* data region written.
C20_WrittenLayout ==
    t_bytes # <<>>
        => LET n == Cardinality(DOMAIN t_table)
               declared == ReadU32(Take(t_bytes, 12, 4))
               data == SubSeq(t_bytes, 16 + 16 * n + 1, Len(t_bytes))
               value(i) == t_table[WrittenEntry(i).tag]
               start(i) == WrittenEntry(i).offset
               end(i) == IF i = 0 THEN 0 ELSE start(i) + SizeOf(value(i))
           IN  /\ Take(t_bytes, 0, 8) = <<142, 173, 232, 1, 0, 0, 0, 0>>
               /\ ReadU32(Take(t_bytes, 8, 4)) = n
               /\ declared = Len(data)
               /\ \A i \in 1..n :
                     /\ WrittenEntry(i).tag \in DOMAIN t_table
                     /\ i > 1 => WrittenEntry(i - 1).tag < WrittenEntry(i).tag
                     /\ WrittenEntry(i).number \in 0..9
                     /\ IndexTypes[WrittenEntry(i).number + 1] = value(i).t
                     /\ WrittenEntry(i).count = ElementCount(value(i))
                     /\ start(i) % AlignmentOf(value(i).t) = 0
                     /\ start(i) >= end(i - 1)
                     /\ start(i) - end(i - 1) < AlignmentOf(value(i).t)
                     /\ \A k \in (end(i - 1) + 1)..start(i) : data[k] = 0
                     /\ end(i) <= Len(data)
                     /\ SubSeq(data, start(i) + 1, end(i)) = IndexValue_write(value(i))
               /\ \A k \in (end(n) + 1)..Len(data) : data[k] = 0
               /\ Len(data) - end(n) = IF t_pad THEN (8 - (end(n) % 8)) % 8 ELSE 0

\* a table of three bytes and an Int64 was written: the Int64 is at offset 8
\* after five bytes of padding
C20_Witness ==
    /\ t_bytes # <<>>
    /\ DOMAIN t_table = {7, 1000}
    /\ t_table[7] = Value("Char", <<1, 2, 3>>)
    /\ t_table[1000] = Value("Int64", <<9>>)
    /\ WrittenEntry(2).offset = 8
    /\ WrittenEntry(1).count = 3

\* a table with a String and an Int16 was written with padding at its end
C20_WitnessPadded ==
    /\ t_bytes # <<>>
    /\ t_pad
    /\ DOMAIN t_table = {-3, 7}
    /\ t_table[-3].t = "String"
    /\ t_table[7] = Value("Int16", <<890>>)
    /\ ReadU32(Take(t_bytes, 12, 4)) = 8


-----------------------------------------------------------------------------
(* Claim C21 *)

\* the number of bytes of the index table that starts at offset p of the
\* written file, as its own header declares them: 16 + 16 * N + D
DeclaredLength(p) ==
    16 + 16 * ReadU32(Take(b_sink, p + 8, 4)) + ReadU32(Take(b_sink, p + 12, 4))

\* C21: IndexTable::write with pad = true emits a data region whose length
\* is a multiple of 8, and IndexTable::read with the pad setting of the
\* write consumes the 16 + 16 * N + D bytes that were written; so for a
\* package whose Signature section was written with pad = true and whose
\* Header section with pad = false, the header_start and archive_start of
\* Package::read are the offsets at which the header table and the
\* compressed archive were written.
C21_OffsetsAsWritten ==
    /\ b_sink # <<>> => ReadU32(Take(b_sink, 96 + 12, 4)) % 8 = 0
    /\ (p_result.ok /\ \A k \in 1..Len(p_damage) : p_damage[k] # "byte") =>
           /\ p_package.header_start = 96 + DeclaredLength(96)
           /\ p_package.archive_start
                  = p_package.header_start + DeclaredLength(p_package.header_start)
           /\ Take(b_sink, p_package.header_start,
                   p_package.archive_start - p_package.header_start)
                  = HeaderSection_write(b_header)
           /\ p_damage = <<>> => p_package.header_start = b_archive.header_start
           /\ Sealed =>
                  Take(b_sink, p_package.archive_start,
                       Len(b_sink) - p_package.archive_start)
                      = Encode(b_archive.encoder.codec, b_archive.encoder.input)

\* a package with a file in it was read after its Signature section was
\* replaced by one with a SHA1, whose data region write padded from 68 to 72
\* bytes
C21_Witness ==
    /\ p_result.ok /\ p_damage = <<"signature">> /\ Len(b_added) > 0
    /\ IsSome(p_package.signature, SIG_TAG_SHA1, "String")
    /\ ReadU32(Take(b_sink, 96 + 12, 4)) = 72
    /\ p_package.header_start = 96 + 16 + 64 + 72
    /\ p_package.archive_start < Len(b_sink)

\* a package the Builder wrote, whose header data region is no multiple of
\* 8 bytes long, was read
C21_WitnessBuilder ==
    /\ p_result.ok /\ p_damage = <<>> /\ Sealed
    /\ ReadU32(Take(b_sink, p_package.header_start + 12, 4)) % 8 # 0
    /\ p_package.archive_start < Len(b_sink)

\* C21, for a table on its own: the read with the pad setting of the write
\* ends where the written bytes end, and a padded data region is a multiple
\* of 8 bytes long
C21_ReadConsumesWritten ==
    t_bytes # <<>> =>
        /\ Len(t_bytes) = 16 + 16 * Cardinality(DOMAIN t_table)
                             + ReadU32(Take(t_bytes, 12, 4))
        /\ t_pad => ReadU32(Take(t_bytes, 12, 4)) % 8 = 0
        /\ (t_result # NoResult /\ t_result.ok) => t_result.pos = Len(t_bytes)


-----------------------------------------------------------------------------
(* Claims C22 and C23 *)

\* the number of elements of the array under the tag
ArrayLength(table, tag) == Len(table[tag].v)

\* the twelve arrays of the file table
FileTableTags ==
    {TAG.FILESIZES, TAG.FILEMODES, TAG.FILERDEVS, TAG.FILEMTIMES, TAG.FILEMD5S,
     TAG.FILELINKTOS, TAG.FILEFLAGS, TAG.FILEUSERNAME, TAG.FILEGROUPNAME,
     TAG.FILEDEVICES, TAG.FILEINODES, TAG.FILELANGS}

\* C22: after any sequence of add_file calls on a HeaderSection that new()
\* made, the file-name array of its scheme (OLDFILENAMES) and the twelve
\* arrays of the file table all have as many elements as there were calls,
\* and files() gives the added records, in the order added.
C22_FileTableParallel ==
    f_header.use_old_filenames =>
        /\ ArrayLength(f_header.table, TAG.OLDFILENAMES) = Len(f_added)
        /\ \A tag \in FileTableTags : ArrayLength(f_header.table, tag) = Len(f_added)
        /\ f_files.listed =>
               /\ Len(f_files.items) = Len(f_added)
               /\ \A i \in 1..Len(f_added) : f_files.items[i] = f_added[i]

\* three different records, two of them for the same path, were added to
\* a HeaderSection of new() and listed
C22_Witness ==
    /\ f_header.use_old_filenames /\ f_files.listed /\ Len(f_added) = 3
    /\ f_added[1].name = f_added[3].name /\ f_added[1] # f_added[3]
    /\ f_added[2] # f_added[1] /\ f_added[2] # f_added[3]
    /\ f_files.items = f_added

\* C23: in the compressed scheme add_file splits the path just after its
\* last '/' (the prefix is empty when there is none), takes the index of an
\* equal DIRNAMES element or appends the prefix, and records the index; so
\* after any add_file calls DIRNAMES has no duplicates, every DIRINDEXES
\* value is in [0, |DIRNAMES|), BASENAMES and DIRINDEXES have one element a
\* file, and DIRNAMES[DIRINDEXES[i]] + BASENAMES[i], which is the name
\* files() gives, is the i-th path added.
C23_CompressedNames ==
    ~f_header.use_old_filenames =>
        LET dirnames == f_header.table[TAG.DIRNAMES].v
            basenames == f_header.table[TAG.BASENAMES].v
            dirindexes == f_header.table[TAG.DIRINDEXES].v
        IN  /\ \A j, k \in 1..Len(dirnames) : dirnames[j] = dirnames[k] => j = k
            /\ Len(basenames) = Len(f_added) /\ Len(dirindexes) = Len(f_added)
            /\ \A i \in 1..Len(f_added) :
                  /\ dirindexes[i] >= 0 /\ dirindexes[i] < Len(dirnames)
                  /\ dirnames[dirindexes[i] + 1] \o basenames[i] = f_added[i].name
                  /\ \A k \in 1..Len(basenames[i]) : basenames[i][k] # 47
                  /\ dirnames[dirindexes[i] + 1] = <<>>
                         \/ dirnames[dirindexes[i] + 1][Len(dirnames[dirindexes[i] + 1])] = 47
            /\ f_files.listed =>
                  /\ Len(f_files.items) = Len(f_added)
                  /\ \A i \in 1..Len(f_added) : f_files.items[i].name = f_added[i].name

\* "/b/c", "d" and "/b/e" were added in the compressed scheme: DIRNAMES is
\* "/b/" and "", and the third file has the index of the first
C23_Witness ==
    /\ ~f_header.use_old_filenames /\ f_files.listed /\ Len(f_added) = 3
    /\ f_header.table[TAG.DIRNAMES].v = <<<<47, 98, 47>>, <<>>>>
    /\ f_header.table[TAG.DIRINDEXES].v = <<0, 1, 0>>
    /\ f_header.table[TAG.BASENAMES].v = <<<<99>>, <<100>>, <<101>>>>


-----------------------------------------------------------------------------
(* Claim C24 *)

\* a step that is a call of read_archive leaves the reader at archive_start
\* and gives a section whose decoder is fed the bytes from archive_start on
\* and has given out nothing, or the error for the compressor, wherever the
\* reader was before
ReadArchiveStep ==
    p_calls' = Append(p_calls, "read_archive") =>
        /\ p_package' = p_package
        /\ p_pos' = p_package.archive_start
        /\ IF payload_compressor(p_package.header) \in {STR.gzip, STR.bzip2, STR.xz}
           THEN /\ p_next'.ok
                /\ p_section'.decoder.input
                       = SubSeq(b_sink, p_package.archive_start + 1, Len(b_sink))
                /\ p_section'.decoder.total_out = 0
                /\ ~p_section'.done /\ ~p_section'.file.some
           ELSE /\ p_next' = InvalidData("Unsupported payload compressor")
                /\ p_section' = NoArchiveSection

\* C24: read_archive seeks to archive_start before it builds the decoder,
\* whatever the position of the source: after validate, after an earlier
\* complete or partial iteration, or several times in a row, the iterator
\* it returns starts again at the first file; and Package::read leaves the
\* source at archive_start, having read no byte of the archive.
C24_ReadArchiveRewinds ==
    /\ []((p_result.ok /\ p_calls = <<>>) => p_pos = p_package.archive_start)
    /\ []((Produced /\ p_section.file.some /\ p_bodies = <<>>) =>
              /\ p_section.file.name = b_added[1].name
              /\ p_section.file.size = Len(b_bodies[1])
              /\ p_read = Unread \/ p_read = b_bodies[1])
    /\ [][ReadArchiveStep]_vars

\* read_archive was called a third time, after an iteration that was left
\* at its first file and one that ran to the end, with the source at its
\* end: the first file is open again and its bytes were read
C24_Witness ==
    /\ p_calls = <<"read_archive", "partial", "read_archive", "complete", "read_archive">>
    /\ Produced /\ Len(b_added) = 2 /\ b_added[1].name # b_added[2].name
    /\ p_section.file.some /\ p_bodies = <<>>
    /\ p_read = b_bodies[1] /\ Len(p_read) = 3
    /\ p_pos = Len(b_sink)

\* read_archive was called after validate had read the archive to its end
C24_WitnessAfterValidate ==
    /\ p_calls = <<"validate", "read_archive">>
    /\ p_validate.result.ok /\ Len(b_added) = 1
    /\ p_next.ok /\ p_pos = p_package.archive_start /\ p_pos < Len(b_sink)

\* read_archive failed for the compressor with the source back at
\* archive_start
C24_WitnessUnsupported ==
    /\ p_calls = <<"validate", "read_archive">>
    /\ p_next = InvalidData("Unsupported payload compressor")
    /\ p_pos = p_package.archive_start

-----------------------------------------------------------------------------
(* Claim C30 *)

\* a step that is a call of validate leaves the Package as it was and, when
\* validate was called before, gives what it gave then
ValidateStep ==
    p_calls' = Append(p_calls, "validate") =>
        /\ p_package' = p_package
        /\ p_result' = p_result
        /\ p_validate.result # NoResult => p_validate' = p_validate

\* C30: validate leaves the lead, the signature, the header, header_start
\* and archive_start of the Package unchanged, and what it returns depends
\* neither on the position of the source nor on the validate and
\* read_archive calls made before: on the same bytes every call returns the
\* same outcome.
C30_ValidateRepeatable ==
    /\ [](p_validate.result # NoResult =>
              \E first \in {Package_validate(p_package, b_sink, 0)} :
                  p_validate = [result |-> first.result, log |-> first.log])
    /\ [][ValidateStep]_vars

\* validate succeeded a second time, after an iteration over the archive
\* had left the source at its end
C30_Witness ==
    /\ p_calls = <<"validate", "read_archive", "complete", "validate">>
    /\ p_validate.result.ok /\ Len(b_added) = 2

\* validate failed three times in a row on a package with a file of three
\* bytes
C30_WitnessFailed ==
    /\ p_calls = <<"validate", "validate", "validate">>
    /\ p_validate.result.kind = "InvalidData" /\ Len(b_added) = 1
    /\ p_validate.log = <<"a", "b", "d", "e">>

\* validate was called on a source left in the middle of things by a
\* partial iteration
C30_WitnessAfterPartial ==
    /\ p_calls = <<"read_archive", "partial", "validate">>
    /\ p_validate.result.ok /\ Len(b_added) = 2


-----------------------------------------------------------------------------
(* Claim C25 *)

\* the lead as LeadSection::write left it: 96 bytes, the name field of 66
\* bytes at offset 10 holding the first 65 bytes of the name, NUL bytes
\* after them, and a NUL as its 66th byte
WrittenLead ==
    /\ \/ Len(l_bytes) = 96
       \/ Len(l_bytes) = 98 /\ SubSeq(l_bytes, 97, 98) = <<142, 173>>
    /\ \A i \in 1..65 :
          l_bytes[10 + i] = IF i <= Len(l_name) THEN l_name[i] ELSE 0
    /\ l_bytes[10 + 66] = 0

\* the lead was written and no byte of it was changed since; the stream may
\* go on after it with the two bytes of the next section's magic number
AsWritten == l_bytes # <<>> /\ l_tampers = 0

(* C25 (as stated): LeadSection::write emits 96 bytes whose name field is  *)
(* 66 bytes, the name left-aligned and NUL-padded with the 66th byte NUL;  *)
(* a name longer than 65 bytes is cut to its first 65 bytes, and reading   *)
(* it back returns that 65-byte prefix.                                    *)
C25_WriteTruncatesAnyName ==
    AsWritten =>
        /\ WrittenLead
        /\ (l_result # NoResult /\ Len(l_name) > 65) =>
               (l_result.ok /\ l_result.name = SubSeq(l_name, 1, 65))

(* C25 (amended): as above, but reading back a name longer than 65 bytes   *)
(* returns its 65-byte prefix without the NUL bytes the prefix ends in:    *)
(* the prefix itself when its 65th byte is not NUL.                        *)
C25_WriteTruncates ==
    AsWritten =>
        /\ WrittenLead
        /\ (l_result # NoResult /\ Len(l_name) > 65) =>
               /\ l_result.ok
               /\ Len(l_result.name) <= 65
               /\ l_result.name = SubSeq(l_name, 1, Len(l_result.name))
               /\ \A i \in (Len(l_result.name) + 1)..65 : l_name[i] = 0
               /\ l_result.name # <<>> => l_result.name[Len(l_result.name)] # 0
               /\ l_name[65] # 0 => l_result.name = SubSeq(l_name, 1, 65)

\* a name of 66 bytes, none of them NUL, was written and read back as its
\* first 65 bytes
C25_Witness ==
    /\ AsWritten /\ l_result.ok /\ Len(l_name) = 66 /\ l_name[65] # 0
    /\ l_result.name = SubSeq(l_name, 1, 65)

\* a name of 66 bytes whose 65th byte is NUL was read back as its first 64
\* bytes
C25_WitnessNul ==
    /\ AsWritten /\ l_result.ok /\ Len(l_name) = 66 /\ l_name[65] = 0
    /\ Len(l_result.name) = 64


-----------------------------------------------------------------------------
(* Claim C26 *)

\* the number of entries the ArchiveBuilder wrote before the trailer, and the
\* number of files the header lists
ArchiveEntryCount == Len(b_bodies)
HeaderFileCount == Len(HeaderSection_files(p_package.header))

(* C26: validate() accepts only packages whose archive holds exactly as    *)
(* many entries as the header lists: on a package that Package::read       *)
(* accepted and whose archive holds more entries, or fewer, validate       *)
(* returns an InvalidData error.                                           *)
C26_CountMismatchRejected ==
    (/\ p_damage = <<>> /\ p_result # NoResult /\ p_result.ok
     /\ p_validate.result # NoResult
     /\ ArchiveEntryCount # HeaderFileCount) =>
        p_validate.result.kind = "InvalidData"

\* validate returned Ok on a package whose header lists a file that the
\* archive does not hold
C26_AcceptedFewer ==
    /\ p_damage = <<>> /\ p_result # NoResult /\ p_result.ok
    /\ p_validate.result # NoResult /\ p_validate.result.ok
    /\ ArchiveEntryCount < HeaderFileCount

\* the loop of validate on an archive of one entry or more and a file list
\* without its last file reads file_infos out of range
C26_MoreEntriesPanic ==
    /\ p_damage = <<>> /\ p_result # NoResult /\ p_result.ok
    /\ ArchiveEntryCount = HeaderFileCount /\ HeaderFileCount > 0
    /\ ValidateFiles(Package_read_archive(p_package, b_sink, p_pos).section,
                     SubSeq(HeaderSection_files(p_package.header), 1,
                            HeaderFileCount - 1),
                     0, 0, <<>>).result.kind = "Panic"


-----------------------------------------------------------------------------
(* Claim C27 *)

\* x mod 2^32 of a u64, as a u64: its two high halves cleared
Low32(x) == <<0, 0, x[3], x[4]>>

\* a u64 below 2^32
Below2p32(x) == x[1] = 0 /\ x[2] = 0

(* C27: the signature setters keep only the low 32 bits: after             *)
(* set_header_and_archive_size(x) the getter returns x mod 2^32, after     *)
(* set_uncompressed_archive_size(x) the getter returns Some(x mod 2^32);   *)
(* the stored value equals the true size only when that is below 2^32, and *)
(* validate, which compares with the untruncated 64-bit lengths, accepts   *)
(* the sizes only then.                                                    *)
C27_SettersKeepLow32 ==
    s_got.asked =>
        /\ s_got.header_and_archive_size = Low32(s_size.header_and_archive)
        /\ s_got.uncompressed_archive_size
               = [some |-> TRUE, value |-> Low32(s_size.uncompressed)]
        /\ (s_got.header_and_archive_size = s_size.header_and_archive)
               <=> Below2p32(s_size.header_and_archive)
        /\ (s_got.uncompressed_archive_size.value = s_size.uncompressed)
               <=> Below2p32(s_size.uncompressed)
        /\ s_got.validate # NoResult =>
               /\ s_got.validate.ok
                      <=> (/\ Below2p32(s_size.header_and_archive)
                           /\ Below2p32(s_size.uncompressed))
               /\ ~s_got.validate.ok => s_got.validate.kind = "InvalidData"

\* a size of 2^32 + 96 was set, read back as 96, and refused by validate
C27_Witness ==
    /\ s_got.asked /\ s_got.validate # NoResult /\ ~s_got.validate.ok
    /\ s_size.header_and_archive = <<0, 1, 0, 96>>
    /\ s_got.header_and_archive_size = <<0, 0, 0, 96>>

\* sizes below 2^32 were set, read back unchanged, and accepted by validate
C27_WitnessSmall ==
    /\ s_got.asked /\ s_got.validate # NoResult /\ s_got.validate.ok
    /\ s_size.header_and_archive = <<0, 0, 65535, 65535>>
    /\ s_size.uncompressed = <<0, 0, 0, 96>>
    /\ s_got.uncompressed_archive_size = [some |-> TRUE, value |-> <<0, 0, 0, 96>>]


-----------------------------------------------------------------------------
(* Claim C28 *)

\* the changelog arrays of the HeaderSection that was read; none when the
\* tag is absent
ChangelogArray(tag) ==
    IF tag \in DOMAIN h_result.header.table
    THEN [some |-> TRUE, v |-> h_result.header.table[tag].v]
    ELSE [some |-> FALSE, v |-> <<>>]

\* the three arrays are there, with one length
ChangelogParallel ==
    /\ ChangelogArray(TAG.CHANGELOGTIME).some
    /\ ChangelogArray(TAG.CHANGELOGNAME).some
    /\ ChangelogArray(TAG.CHANGELOGTEXT).some
    /\ Len(ChangelogArray(TAG.CHANGELOGNAME).v) = Len(ChangelogArray(TAG.CHANGELOGTIME).v)
    /\ Len(ChangelogArray(TAG.CHANGELOGTEXT).v) = Len(ChangelogArray(TAG.CHANGELOGTIME).v)

\* one entry per element of CHANGELOGTIME, built from the i-th elements
ParallelEntries ==
    [i \in 1..Len(ChangelogArray(TAG.CHANGELOGTIME).v) |->
        [time |-> <<ChangelogArray(TAG.CHANGELOGTIME).v[i]>>,
         author |-> ChangelogArray(TAG.CHANGELOGNAME).v[i],
         description |-> ChangelogArray(TAG.CHANGELOGTEXT).v[i]]]

(* C28: changelog() is defined for every HeaderSection that                *)
(* HeaderSection::read accepts: it yields one entry per element of         *)
(* CHANGELOGTIME, built from the i-th elements of the three changelog      *)
(* arrays, and yields no entry, without failing, when the changelog tags   *)
(* are absent or the three arrays were read with different lengths.        *)
C28_ChangelogDefined ==
    h_changelog.result # NoResult =>
        /\ h_changelog.result.ok
        /\ h_changelog.entries = IF ChangelogParallel THEN ParallelEntries ELSE <<>>

\* on three arrays of one length changelog() does what the claim says
C28_ParallelYields ==
    (h_changelog.result # NoResult /\ ChangelogParallel) =>
        /\ h_changelog.result.ok
        /\ h_changelog.entries = ParallelEntries

\* two changes were read back as two entries
C28_YieldedTwo ==
    /\ h_changelog.result # NoResult /\ h_changelog.result.ok
    /\ ChangelogParallel /\ Len(h_changelog.entries) = 2

\* changelog() panicked on the accepted header of HeaderSection::new, which
\* has no changelog tag
C28_PanicAbsent ==
    /\ h_changelog.result # NoResult /\ h_changelog.result.kind = "Panic"
    /\ h_edits = 0 /\ h_result.ok
    /\ ~ChangelogArray(TAG.CHANGELOGTIME).some

\* the iterator panicked on an accepted header with two times and one name
C28_PanicShorter ==
    /\ h_changelog.result # NoResult /\ h_changelog.result.kind = "Panic"
    /\ h_result.ok
    /\ Len(ChangelogArray(TAG.CHANGELOGTIME).v) = 2
    /\ Len(ChangelogArray(TAG.CHANGELOGNAME).v) = 1
    /\ Len(ChangelogArray(TAG.CHANGELOGTEXT).v) = 2

\* changelog() yielded an entry from arrays of different lengths
C28_YieldedUnequal ==
    /\ h_changelog.result # NoResult /\ h_changelog.result.ok
    /\ ~ChangelogParallel /\ Len(h_changelog.entries) = 1


-----------------------------------------------------------------------------
(* Claim C29 *)

\* the bytes of the sink from offset from, count of them
SinkPart(from, count) == SubSeq(b_sink, from + 1, from + count)

\* the sink holds a lead of 96 bytes that starts with the lead's magic
\* number, a Signature section that reads as the placeholder, and the
\* Header section of the builder's header, and nothing after them
SinkHoldsSections ==
    LET signature == SignatureSection_read(b_sink, 96)
        header == HeaderSection_read(b_sink, signature.pos)
    IN  /\ Len(b_sink) > 96
        /\ SinkPart(0, 4) = MAGIC_NUMBER
        /\ signature.ok
        /\ signature.table = SignatureSection_placeholder
        /\ header.ok
        /\ header.header = b_header
        /\ header.pos = Len(b_sink)

(* C29: PackageBuilder::build checks the compressor name and the level     *)
(* only after it has written the lead, the placeholder signature and the   *)
(* header: when build returns a configuration error the sink holds those   *)
(* bytes, no ArchiveBuilder exists, and no finalization ever runs on that  *)
(* sink, which keeps the placeholder signature.                            *)
C29_ErrorAfterWriting ==
    /\ [](b_phase = "NotBuilt" =>
             /\ ~b_result.ok /\ b_result.kind = "InvalidInput"
             /\ SinkHoldsSections
             /\ b_archive = NoArchiveBuilder
             /\ b_runs = 0)
    /\ [][b_phase = "NotBuilt" =>
             /\ b_phase' = "NotBuilt"
             /\ UNCHANGED <<b_sink, b_archive, b_runs>>]_vars

\* build refused an unsupported compressor and left the three sections
C29_Witness ==
    /\ b_phase = "NotBuilt"
    /\ b_result.msg = "Unsupported payload compressor"
    /\ SinkHoldsSections

\* build refused a level out of range and left the three sections
C29_WitnessLevel ==
    /\ b_phase = "NotBuilt"
    /\ b_result.msg = "Invalid compression level"
    /\ SinkHoldsSections

====
